---- MODULE Spec2Model ----
(***************************************************************************)
(* Link verification engine of util/links-check.py: the external probe     *)
(* check_external_link as a step machine over an HTTP layer that answers   *)
(* each request with a response or an exception, and check_links with its  *)
(* local pass, its thread pool and the locked report writer.               *)
(***************************************************************************)
EXTENDS Integers, Sequences, FiniteSets, TLC

\* ------------------------------------------------------------------------
\* Python string primitives (strings are TLC strings; positions from 1)
\* ------------------------------------------------------------------------

Min(a, b) == IF a <= b THEN a ELSE b

\* s[i] as a one-character string
CharAt(s, i) == SubSeq(s, i, i)

\* s[:n]
Truncate(s, n) == SubSeq(s, 1, Min(n, Len(s)))

\* s[i:]   (i counted from 1)
DropTo(s, i) == SubSeq(s, i, Len(s))

\* sub in s
Contains(s, sub) ==
    \E i \in 1..(Len(s) - Len(sub) + 1) : SubSeq(s, i, i + Len(sub) - 1) = sub

\* s.startswith(pre)
StartsWith(s, pre) == Len(pre) <= Len(s) /\ SubSeq(s, 1, Len(pre)) = pre

\* first position >= from of a character of the set chars, Len(s)+1 if none
FindFrom(s, chars, from) ==
    LET hits == {i \in from..Len(s) : CharAt(s, i) \in chars}
    IN  IF hits = {} THEN Len(s) + 1
        ELSE CHOOSE i \in hits : \A j \in hits : i <= j

UpperAZ == "ABCDEFGHIJKLMNOPQRSTUVWXYZ"
LowerAZ == "abcdefghijklmnopqrstuvwxyz"
Digits == "0123456789"

CharsOf(s) == {CharAt(s, i) : i \in 1..Len(s)}

LowerChar(c) ==
    IF c \in CharsOf(UpperAZ)
    THEN CharAt(LowerAZ, CHOOSE i \in 1..Len(UpperAZ) : CharAt(UpperAZ, i) = c)
    ELSE c

RECURSIVE Lower(_)
\* s.lower()
Lower(s) == IF s = "" THEN "" ELSE LowerChar(Head(s)) \o Lower(Tail(s))

RECURSIVE LStrip(_)
\* leading blanks dropped (urlsplit strips leading C0 control and space)
LStrip(s) == IF s # "" /\ Head(s) = " " THEN LStrip(Tail(s)) ELSE s

RECURSIVE RStrip(_)
RStrip(s) ==
    IF s # "" /\ CharAt(s, Len(s)) = " " THEN RStrip(SubSeq(s, 1, Len(s) - 1)) ELSE s

\* s.strip()
Strip(s) == RStrip(LStrip(s))

RECURSIVE ReplaceChar(_, _, _)
\* s.replace(old, new) for a one-character old
ReplaceChar(s, old, new) ==
    IF s = "" THEN ""
    ELSE (IF Head(s) = old THEN new ELSE Head(s)) \o ReplaceChar(Tail(s), old, new)

\* ------------------------------------------------------------------------
\* urlparse, as far as the checker reads its result: scheme and netloc,
\* and the ValueError for a netloc with an unmatched square bracket
\* ------------------------------------------------------------------------

SchemeChars == CharsOf(UpperAZ) \cup CharsOf(LowerAZ) \cup CharsOf(Digits) \cup {"+", "-", "."}

urlparse(link) ==
    LET url == LStrip(link)
        i == FindFrom(url, {":"}, 1)
        hasScheme == /\ i <= Len(url)
                     /\ i > 1
                     /\ CharAt(url, 1) \in CharsOf(UpperAZ) \cup CharsOf(LowerAZ)
                     /\ \A k \in 1..(i - 1) : CharAt(url, k) \in SchemeChars
        scheme == IF hasScheme THEN Lower(SubSeq(url, 1, i - 1)) ELSE ""
        rest == IF hasScheme THEN DropTo(url, i + 1) ELSE url
        hasNetloc == SubSeq(rest, 1, Min(2, Len(rest))) = "//"
        netloc == IF hasNetloc
                  THEN SubSeq(rest, 3, FindFrom(rest, {"/", "?", "#"}, 3) - 1)
                  ELSE ""
        open == Contains(netloc, "[")
        close == Contains(netloc, "]")
    IN  [raises |-> (open /\ ~close) \/ (close /\ ~open),
         scheme |-> scheme,
         netloc |-> netloc]

ExternalSchemes == {"http", "https", "ftp", "mailto", "tel", "javascript"}

\* NotHttpSchemes without mailto
NotHttpSchemesNoMailto == {"tel", "javascript"}

\* line 165: the schemes check_external_link does not request
NotHttpSchemes == {"mailto", "tel", "javascript"}

\* is_external_link(link); only meaningful where urlparse does not raise
is_external_link(link) == urlparse(link).scheme \in ExternalSchemes

\* ------------------------------------------------------------------------
\* os.path (posixpath) as normalize_path and check_links use it
\* ------------------------------------------------------------------------

\* s.split(sep) for a one-character sep
RECURSIVE Split(_, _)
Split(s, sep) ==
    LET i == FindFrom(s, {sep}, 1)
    IN  IF i > Len(s) THEN <<s>>
        ELSE <<SubSeq(s, 1, i - 1)>> \o Split(DropTo(s, i + 1), sep)

\* sep.join(parts)
RECURSIVE Join(_, _)
Join(parts, sep) ==
    IF parts = << >> THEN ""
    ELSE IF Len(parts) = 1 THEN parts[1]
    ELSE parts[1] \o sep \o Join(Tail(parts), sep)

\* last position of the character c in s, 0 if none
RFind(s, c) ==
    LET hits == {i \in 1..Len(s) : CharAt(s, i) = c}
    IN  IF hits = {} THEN 0 ELSE CHOOSE i \in hits : \A j \in hits : j <= i

RECURSIVE RStripSlash(_)
RStripSlash(s) ==
    IF s # "" /\ CharAt(s, Len(s)) = "/" THEN RStripSlash(SubSeq(s, 1, Len(s) - 1)) ELSE s

\* os.path.dirname
dirname(path) ==
    LET head == SubSeq(path, 1, RFind(path, "/"))
    IN  IF head # "" /\ RStripSlash(head) # "" THEN RStripSlash(head) ELSE head

\* os.path.join of two parts
pathjoin(a, b) ==
    IF StartsWith(b, "/") THEN b
    ELSE IF a = "" \/ CharAt(a, Len(a)) = "/" THEN a \o b
    ELSE a \o "/" \o b

\* the component loop of os.path.normpath
RECURSIVE NormComps(_, _, _)
NormComps(comps, acc, rooted) ==
    IF comps = << >> THEN acc
    ELSE LET comp == Head(comps)
             rest == Tail(comps)
         IN  IF comp \in {"", "."} THEN NormComps(rest, acc, rooted)
             ELSE IF \/ comp # ".."
                     \/ (~rooted /\ acc = << >>)
                     \/ (acc # << >> /\ acc[Len(acc)] = "..")
                  THEN NormComps(rest, Append(acc, comp), rooted)
             ELSE IF acc # << >>
                  THEN NormComps(rest, SubSeq(acc, 1, Len(acc) - 1), rooted)
             ELSE NormComps(rest, acc, rooted)

\* os.path.normpath
normpath(path) ==
    IF path = "" THEN "."
    ELSE LET slashes == IF ~StartsWith(path, "/") THEN ""
                        ELSE IF StartsWith(path, "//") /\ ~StartsWith(path, "///") THEN "//"
                        ELSE "/"
             out == slashes \o Join(NormComps(Split(path, "/"), << >>, slashes # ""), "/")
         IN  IF out = "" THEN "." ELSE out

\* the non-empty components of a path
PathList(path) == SelectSeq(Split(path, "/"), LAMBDA x : x # "")

RECURSIVE CommonLen(_, _)
CommonLen(a, b) ==
    IF a = << >> \/ b = << >> \/ Head(a) # Head(b) THEN 0
    ELSE 1 + CommonLen(Tail(a), Tail(b))

\* os.path.relpath(path, start) for absolute arguments
relpath(path, start) ==
    LET start_list == PathList(normpath(start))
        path_list == PathList(normpath(path))
        i == CommonLen(start_list, path_list)
        rel_list == [k \in 1..(Len(start_list) - i) |-> ".."]
                    \o SubSeq(path_list, i + 1, Len(path_list))
    IN  IF rel_list = << >> THEN "." ELSE Join(rel_list, "/")

\* normalize_path that removes the fragment and keeps the query string
normalize_pathKeepQuery(link, source_file_path) ==
    LET source_dir == dirname(source_file_path)
        link_without_fragment == Split(link, "#")[1]
    IN  IF link_without_fragment = "" THEN source_file_path
        ELSE normpath(pathjoin(source_dir, link_without_fragment))

\* normalize_path(link, source_file_path)
normalize_path(link, source_file_path) ==
    LET source_dir == dirname(source_file_path)
        link_without_fragment == Split(Split(link, "#")[1], "?")[1]
    IN  IF link_without_fragment = "" THEN source_file_path
        ELSE normpath(pathjoin(source_dir, link_without_fragment))

\* os.path.splitext(p)[1]
splitext_ext(p) ==
    LET sepIndex == RFind(p, "/")
        dotIndex == RFind(p, ".")
        lead == {k \in (sepIndex + 1)..dotIndex : CharAt(p, k) # "."}
    IN  IF dotIndex > sepIndex /\ lead # {} THEN DropTo(p, dotIndex) ELSE ""

\* guess_expected_type(link)
guess_expected_type(link) ==
    LET ext == splitext_ext(Lower(link))
    IN  IF ext \in {".htm", ".html"} THEN "html"
        ELSE IF ext \in {".jpg", ".jpeg", ".png", ".gif", ".bmp", ".svg", ".ico", ".webp"} THEN "image"
        ELSE IF ext = ".js" THEN "script"
        ELSE IF ext = ".css" THEN "style"
        ELSE IF ext = ".pdf" THEN "document"
        ELSE IF ext = ".txt" THEN "text"
        ELSE IF ext = ".xml" THEN "xml"
        ELSE IF ext \in {".zip", ".rar", ".7z"} THEN "archive"
        ELSE "other"

\* mimetypes.guess_type(filepath)[0] by the extension of the path, "None"
\* when the extension is not in the table
guess_type(filepath) ==
    LET ext == Lower(splitext_ext(filepath))
    IN  IF ext \in {".htm", ".html"} THEN "text/html"
        ELSE IF ext = ".png" THEN "image/png"
        ELSE IF ext \in {".jpg", ".jpeg"} THEN "image/jpeg"
        ELSE IF ext = ".gif" THEN "image/gif"
        ELSE IF ext = ".svg" THEN "image/svg+xml"
        ELSE IF ext = ".js" THEN "text/javascript"
        ELSE IF ext = ".css" THEN "text/css"
        ELSE IF ext = ".pdf" THEN "application/pdf"
        ELSE IF ext = ".txt" THEN "text/plain"
        ELSE IF ext = ".xml" THEN "text/xml"
        ELSE IF ext = ".zip" THEN "application/zip"
        ELSE "None"

\* check_file_type that fails a file whose type matches no branch
check_file_typeStrict(filepath, expected_type) ==
    LET mime_type == guess_type(filepath)
    IN  IF expected_type = "other" THEN TRUE
        ELSE IF mime_type = "None" THEN TRUE
        ELSE IF expected_type = "html" /\ Contains(mime_type, "html") THEN TRUE
        ELSE IF expected_type = "image" /\ StartsWith(mime_type, "image/") THEN TRUE
        ELSE IF expected_type = "script" /\ Contains(mime_type, "javascript") THEN TRUE
        ELSE IF expected_type = "style" /\ Contains(mime_type, "css") THEN TRUE
        ELSE IF expected_type = "document" /\ Contains(mime_type, "pdf") THEN TRUE
        ELSE IF expected_type = "text" /\ Contains(mime_type, "text") THEN TRUE
        ELSE IF expected_type = "xml" /\ Contains(mime_type, "xml") THEN TRUE
        ELSE IF expected_type = "archive"
                /\ (Contains(mime_type, "zip") \/ Contains(mime_type, "rar")) THEN TRUE
        ELSE FALSE

\* check_file_type(filepath, expected_type): the last statement, reached
\* when no branch matched, returns True as well
check_file_type(filepath, expected_type) ==
    LET mime_type == guess_type(filepath)
    IN  IF expected_type = "other" THEN TRUE
        ELSE IF mime_type = "None" THEN TRUE
        ELSE IF expected_type = "html" /\ Contains(mime_type, "html") THEN TRUE
        ELSE IF expected_type = "image" /\ StartsWith(mime_type, "image/") THEN TRUE
        ELSE IF expected_type = "script" /\ Contains(mime_type, "javascript") THEN TRUE
        ELSE IF expected_type = "style" /\ Contains(mime_type, "css") THEN TRUE
        ELSE IF expected_type = "document" /\ Contains(mime_type, "pdf") THEN TRUE
        ELSE IF expected_type = "text" /\ Contains(mime_type, "text") THEN TRUE
        ELSE IF expected_type = "xml" /\ Contains(mime_type, "xml") THEN TRUE
        ELSE IF expected_type = "archive"
                /\ (Contains(mime_type, "zip") \/ Contains(mime_type, "rar")) THEN TRUE
        ELSE TRUE

\* ------------------------------------------------------------------------
\* Responses, exceptions and outcomes
\* ------------------------------------------------------------------------

\* status_code of an outcome that carries no HTTP status (Python None)
NoStatus == -1

\* an answer of the HTTP layer: a response (status, Server header, cf-ray
\* header present), an exception (class, message), or plain success of a
\* step that returns nothing of interest
Resp(st, server, cfray) ==
    [kind |-> "resp", status |-> st, server |-> server, cfray |-> cfray,
     cls |-> "", msg |-> ""]
Exc(cls, msg) ==
    [kind |-> "exc", status |-> NoStatus, server |-> "", cfray |-> FALSE,
     cls |-> cls, msg |-> msg]
Fine ==
    [kind |-> "ok", status |-> NoStatus, server |-> "", cfray |-> FALSE,
     cls |-> "", msg |-> ""]
NoResp ==
    [kind |-> "none", status |-> NoStatus, server |-> "", cfray |-> FALSE,
     cls |-> "", msg |-> ""]

Outcome(ok, st, reason, detail) ==
    [ok |-> ok, status_code |-> st, reason |-> reason, detail |-> detail]
NoOutcome == Outcome(FALSE, NoStatus, "", "")

\* bool(response): requests.Response is truthy unless 400 <= status < 600
ResponseTruthy(resp) == ~(400 <= resp.status /\ resp.status < 600)

get_http_error_details(status_code, url, response) ==
    LET server_header == IF ResponseTruthy(response) THEN Lower(response.server) ELSE ""
        cloudflare_detected ==
            /\ ResponseTruthy(response)
            /\ (Contains(server_header, "cloudflare") \/ response.cfray)
    IN  IF status_code = 403 THEN
            "Access forbidden. "
            \o (IF cloudflare_detected
                THEN "Cloudflare protection detected - may require browser verification (captcha/challenge) or cookie acceptance. "
                ELSE "")
            \o "Possible causes: (1) Bot detection/WAF blocking automated requests, (2) Geographic restrictions, "
            \o "(3) Requires authentication/session cookies, (4) IP-based blocking, (5) Cookie consent required. "
            \o "Page may be accessible in a regular browser."
        ELSE IF status_code = 401 THEN
            "Authentication required. Page requires valid login credentials or API key."
        ELSE IF status_code = 404 THEN
            "Page not found. The URL does not exist on the server or has been moved/deleted."
        ELSE IF status_code = 429 THEN
            "Too many requests. Rate limiting is in effect - server is throttling requests from this client."
        ELSE IF status_code = 500 THEN
            "Internal server error. Server encountered an unexpected condition that prevented it from fulfilling the request."
        ELSE IF status_code = 502 THEN
            "Bad gateway. Server received invalid response from upstream server (gateway/proxy issue)."
        ELSE IF status_code = 503 THEN
            "Service unavailable. Server is temporarily unable to handle the request (maintenance, overload)."
        ELSE IF status_code = 504 THEN
            "Gateway timeout. Upstream server failed to respond in time."
        ELSE IF status_code = 410 THEN
            "Gone. Resource permanently deleted and will not be available again."
        ELSE IF status_code = 451 THEN
            "Unavailable for legal reasons. Access blocked due to legal demands (censorship, copyright, etc)."
        ELSE IF 400 <= status_code /\ status_code < 500 THEN
            "Client error " \o ToString(status_code)
            \o ". Issue with the request (malformed, unauthorized, or forbidden)."
        ELSE IF 500 <= status_code /\ status_code < 600 THEN
            "Server error " \o ToString(status_code)
            \o ". Server failed to fulfill a valid request."
        ELSE
            "Unexpected HTTP status code " \o ToString(status_code) \o "."

\* Verdict with the redirect band taken for a failure
VerdictRedirectFails(response, url) ==
    IF 200 <= response.status /\ response.status < 300 THEN
        Outcome(TRUE, response.status, "OK", "")
    ELSE
        Outcome(FALSE, response.status, "HTTP " \o ToString(response.status),
                get_http_error_details(response.status, url, response))

\* verdict derivation from the response held in `response` (lines 237-246)
Verdict(response, url) ==
    IF 200 <= response.status /\ response.status < 300 THEN
        Outcome(TRUE, response.status, "OK", "")
    ELSE IF 300 <= response.status /\ response.status < 400 THEN
        Outcome(TRUE, response.status, "OK (Redirect)", "")
    ELSE
        Outcome(FALSE, response.status, "HTTP " \o ToString(response.status),
                get_http_error_details(response.status, url, response))

\* per-request timeout in seconds, the default of check_external_link
DefaultTimeout == 30

\* the except clauses of lines 261-278, for an exception e that is not an
\* SSLError (the clauses are tried in the order written)
ExceptOutcome(e, timeout) ==
    IF e.cls = "Timeout" THEN
        Outcome(FALSE, NoStatus, "Timeout",
                "Request exceeded " \o ToString(timeout)
                \o "s timeout. Server may be slow or unresponsive.")
    ELSE IF e.cls = "ConnectionError" THEN
        LET error_str == Lower(e.msg)
        IN  IF \/ Contains(error_str, "name or service not known")
               \/ Contains(error_str, "nodename nor servname provided")
            THEN Outcome(FALSE, NoStatus, "Connection error",
                         "DNS resolution failed. Domain may not exist or DNS server is unreachable.")
            ELSE IF Contains(error_str, "connection refused")
            THEN Outcome(FALSE, NoStatus, "Connection error",
                         "Connection refused. Server is not accepting connections on this port.")
            ELSE IF Contains(error_str, "no route to host")
            THEN Outcome(FALSE, NoStatus, "Connection error",
                         "No route to host. Network is unreachable or firewall is blocking the connection.")
            ELSE Outcome(FALSE, NoStatus, "Connection error",
                         "Failed to establish connection. " \o Truncate(e.msg, 100))
    ELSE IF e.cls = "TooManyRedirects" THEN
        Outcome(FALSE, NoStatus, "Too many redirects",
                "Exceeded maximum number of redirects. May indicate a redirect loop.")
    ELSE IF e.cls = "RequestException" THEN
        Outcome(FALSE, NoStatus, "Request failed: " \o Truncate(e.msg, 50),
                Truncate(e.msg, 200))
    ELSE
        Outcome(FALSE, NoStatus, "Unexpected error: " \o Truncate(e.msg, 50),
                Truncate(e.msg, 200))

\* FallbackStatuses without "service unavailable"
FallbackStatusesNo503 == {403, 405, 501}

\* HEAD statuses after which the probe reissues the request as a GET
FallbackStatuses == {403, 405, 501, 503}

\* ------------------------------------------------------------------------
\* The HTTP layer
\* ------------------------------------------------------------------------

\* the points of check_external_link at which the outside world answers
Steps == {"head", "get", "session", "headers", "retry", "retryclose", "bypass"}

StatusSet == {200, 301, 401, 403, 404, 405, 500, 501, 503, 999}

Resps ==
    {Resp(st, "", FALSE) : st \in StatusSet}
    \cup {Resp(403, "cloudflare", TRUE), Resp(999, "Cloudflare", FALSE)}

SSLErrors ==
    {Exc("SSLError",
         "HTTPSConnectionPool(host='example.invalid', port=443): Max retries exceeded (Caused by SSLError(SSLCertVerificationError))")}

NetExcs ==
    SSLErrors \cup
    {Exc("Timeout", "HTTPSConnectionPool(host='example.invalid', port=443): Read timed out. (read timeout=30)"),
     Exc("ConnectionError", "Failed to resolve 'example.invalid' ([Errno -2] Name or service not known)"),
     Exc("ConnectionError", "[Errno 111] Connection refused"),
     Exc("ConnectionError", "[Errno 113] No route to host"),
     Exc("ConnectionError", "('Connection aborted.', RemoteDisconnected('Remote end closed connection without response'))"),
     Exc("TooManyRedirects", "Exceeded 30 redirects."),
     Exc("RequestException", "Invalid URL 'https://example.invalid:x/': Failed to parse"),
     Exc("Exception", "embedded null byte")}

\* what a step that sends nothing (building an object, closing one) can raise
LocalExcs == {Exc("Exception", "[Errno 24] Too many open files")}

\* every answer the HTTP layer may give at a step
AnyAnswer(step) ==
    IF step \in {"head", "get", "retry", "bypass"} THEN Resps \cup NetExcs
    ELSE {Fine} \cup LocalExcs

\* ------------------------------------------------------------------------
\* State
\* ------------------------------------------------------------------------

VARIABLES
    probe,   \* call id -> the frame of one call of check_external_link
    net,     \* url -> step -> the answers the HTTP layer may give there
    cfg,     \* arguments and environment of check_links
    manifest,                 \* data['files']: entries with path and links
    fs,                       \* the files and the directories that exist
    mainpc,                   \* where the thread calling check_links is
    pos,                      \* <<entry, link>> the local pass is at
    external_links_to_check,  \* the queue of (source_path, link)
    futures,                  \* one future per submitted task, in order
    checked_count,
    dead_links_count,
    csv_lock,                 \* the thread holding the lock, "" if free
    csv_writer,               \* TRUE when the report was opened
    csvfile,                  \* the report: rows buffered and rows on disk
    wdl,                      \* the call of write_dead_link in progress
    norm,                     \* the frame of one call of normalize_path
    repo,                     \* links-enum.py: the text of the files scanned
    scan,                     \* the frame of scan_repository
    extract,                  \* the frame of extract_links_from_html
    main,                     \* links-check.py: the frame of main() and its environment
    stdout,                   \* the messages printed, progress lines left out
    ns                        \* netspeed: the server, the client and their connections

\* the state outside check_links and check_external_link
otherVars == <<norm, repo, scan, extract, main, ns>>
restVars == <<otherVars, stdout>>
probeVars == <<probe, net>>
engineVars == <<cfg, manifest, fs, mainpc, pos, external_links_to_check, futures,
                checked_count, dead_links_count, csv_lock, csv_writer, csvfile, wdl>>
vars == <<probe, net, cfg, manifest, fs, mainpc, pos, external_links_to_check, futures,
          checked_count, dead_links_count, csv_lock, csv_writer, csvfile, wdl, norm,
          repo, scan, extract, main, stdout, ns>>

\* the frame of a call that has not executed anything yet
NewProbe(url, timeout) ==
    [pc |-> "start", url |-> url, timeout |-> timeout,
     response |-> NoResp,        \* the local `response`
     session |-> FALSE,          \* a requests.Session is open
     pending |-> NoOutcome,      \* value of a return waiting for `finally`
     returning |-> FALSE,
     caught |-> NoResp,          \* the SSLError bound to `e`
     log |-> << >>,              \* history: the steps answered so far
     escalated |-> FALSE,        \* the 403 branch was entered
     raised |-> "",              \* class of an exception that left the call
     outcome |-> NoOutcome]

\* one entry of the history: the step, the answer to it and, for the
\* escalation request, the answer to closing its response
Ev(step, ans, close) == [step |-> step, ans |-> ans, close |-> close]

Return(f, out) == [f EXCEPT !.pc = "done", !.outcome = out]

\* Except without the clause for SSLError
ExceptNoBypass(f, e) == Return(f, ExceptOutcome(e, f.timeout))

\* an exception e reaches the except clauses of the outer try
Except(f, e) ==
    IF e.cls = "SSLError"
    THEN [f EXCEPT !.pc = "sslget", !.caught = e]
    ELSE Return(f, ExceptOutcome(e, f.timeout))

\* lines 163-166: urlparse outside the try, then the not-HTTP skip
ProbeStart(p) ==
    /\ probe[p].pc = "start"
    /\ LET f == probe[p]
           parsed == urlparse(f.url)
       IN  probe' = [probe EXCEPT ![p] =
              IF parsed.raises THEN [f EXCEPT !.pc = "raised", !.raised = "ValueError"]
              ELSE IF parsed.scheme \in NotHttpSchemes
                   THEN Return(f, Outcome(TRUE, NoStatus, "Skipped - not HTTP", "Not an HTTP(S) link"))
                   ELSE [f EXCEPT !.pc = "head"]]
    /\ UNCHANGED <<net, engineVars, restVars>>

\* AfterFallback that escalates on a 403 of the HEAD as well
AfterFallbackHead403(f) ==
    IF f.response.status = 403 \/ f.log[1].ans.status = 403
    THEN [f EXCEPT !.pc = "session", !.escalated = TRUE]
    ELSE Return(f, Verdict(f.response, f.url))

\* what follows the HEAD/GET-fallback step: line 210, else lines 237-246
AfterFallback(f) ==
    IF f.response.status = 403
    THEN [f EXCEPT !.pc = "session", !.escalated = TRUE]
    ELSE Return(f, Verdict(f.response, f.url))

\* line 200, and the test of line 204
HeadRequest(p) ==
    /\ probe[p].pc = "head"
    /\ \E r \in net[probe[p].url]["head"] :
         LET f == [probe[p] EXCEPT !.log = Append(@, Ev("head", r, Fine))]
         IN  probe' = [probe EXCEPT ![p] =
                IF r.kind = "exc" THEN Except(f, r)
                ELSE IF r.status \in FallbackStatuses
                     THEN [f EXCEPT !.response = r, !.pc = "get"]
                     ELSE AfterFallback([f EXCEPT !.response = r])]
    /\ UNCHANGED <<net, engineVars, restVars>>

\* lines 205-207: the GET and the close of its stream
GetFallback(p) ==
    /\ probe[p].pc = "get"
    /\ \E r \in net[probe[p].url]["get"] :
         LET f == [probe[p] EXCEPT !.log = Append(@, Ev("get", r, Fine))]
         IN  probe' = [probe EXCEPT ![p] =
                IF r.kind = "exc" THEN Except(f, r)
                ELSE AfterFallback([f EXCEPT !.response = r])]
    /\ UNCHANGED <<net, engineVars, restVars>>

\* lines 211-214: the delay and requests.Session(), still in the outer try
CreateSession(p) ==
    /\ probe[p].pc = "session"
    /\ \E r \in net[probe[p].url]["session"] :
         LET f == [probe[p] EXCEPT !.log = Append(@, Ev("session", r, Fine))]
         IN  probe' = [probe EXCEPT ![p] =
                IF r.kind = "exc" THEN Except(f, r)
                ELSE [f EXCEPT !.session = TRUE, !.pc = "headers"]]
    /\ UNCHANGED <<net, engineVars, restVars>>

\* line 215: get_enhanced_headers(url), still in the outer try
BuildHeaders(p) ==
    /\ probe[p].pc = "headers"
    /\ \E r \in net[probe[p].url]["headers"] :
         LET f == [probe[p] EXCEPT !.log = Append(@, Ev("headers", r, Fine))]
         IN  probe' = [probe EXCEPT ![p] =
                IF r.kind = "exc" THEN Except(f, r)
                ELSE [f EXCEPT !.pc = "retry"]]
    /\ UNCHANGED <<net, engineVars, restVars>>

\* RetryResult that goes on with the response it had before the retry
RetryResultKeepsOriginal(f, r) ==
    IF 200 <= r.status /\ r.status < 400
    THEN [f EXCEPT !.returning = TRUE,
                   !.pending = Outcome(TRUE, r.status, "OK (Enhanced retry)",
                                       "Accessible with enhanced browser simulation")]
    ELSE f

\* RetryResult that takes only 2xx of the retry for a success
RetryResultOnly2xx(f, r) ==
    IF 200 <= r.status /\ r.status < 300
    THEN [f EXCEPT !.returning = TRUE,
                   !.pending = Outcome(TRUE, r.status, "OK (Enhanced retry)",
                                       "Accessible with enhanced browser simulation")]
    ELSE [f EXCEPT !.response = r]

\* lines 228-231: what the retry response r, received and closed, leads to
RetryResult(f, r) ==
    IF 200 <= r.status /\ r.status < 400
    THEN [f EXCEPT !.returning = TRUE,
                   !.pending = Outcome(TRUE, r.status, "OK (Enhanced retry)",
                                       "Accessible with enhanced browser simulation")]
    ELSE [f EXCEPT !.response = r]

\* lines 217-233: the inner try with its bare except
RetryGet(p) ==
    /\ probe[p].pc = "retry"
    /\ \E r \in net[probe[p].url]["retry"], c \in net[probe[p].url]["retryclose"] :
         LET f == [probe[p] EXCEPT
                      !.log = Append(@, Ev("retry", r, IF r.kind = "exc" THEN NoResp ELSE c)),
                      !.pc = "sessclose"]
         IN  probe' = [probe EXCEPT ![p] =
                IF r.kind = "exc" \/ c.kind = "exc" THEN f
                ELSE RetryResult(f, r)]
    /\ UNCHANGED <<net, engineVars, restVars>>

\* lines 234-235, then the pending return or lines 237-246
SessionClose(p) ==
    /\ probe[p].pc = "sessclose"
    /\ LET f == [probe[p] EXCEPT !.session = FALSE]
       IN  probe' = [probe EXCEPT ![p] =
              IF f.returning THEN Return(f, f.pending)
              ELSE Return(f, Verdict(f.response, f.url))]
    /\ UNCHANGED <<net, engineVars, restVars>>

\* BypassOutcome that leaves the status explanation out of the detail
BypassOutcomeNoDetails(r, url) ==
    IF 200 <= r.status /\ r.status < 400 THEN
        Outcome(TRUE, r.status, "OK (SSL Warning)",
                "SSL certificate verification failed but site is accessible")
    ELSE
        Outcome(FALSE, r.status, "HTTP " \o ToString(r.status) \o " (SSL Warning)",
                "SSL certificate issue. ")

\* lines 254-258: the outcome for the response r of the unverified GET
BypassOutcome(r, url) ==
    IF 200 <= r.status /\ r.status < 400 THEN
        Outcome(TRUE, r.status, "OK (SSL Warning)",
                "SSL certificate verification failed but site is accessible")
    ELSE
        Outcome(FALSE, r.status, "HTTP " \o ToString(r.status) \o " (SSL Warning)",
                "SSL certificate issue. " \o get_http_error_details(r.status, url, r))

\* lines 248-260: one GET with verify=False
SslBypassGet(p) ==
    /\ probe[p].pc = "sslget"
    /\ \E r \in net[probe[p].url]["bypass"] :
         LET f == [probe[p] EXCEPT !.log = Append(@, Ev("bypass", r, Fine))]
         IN  probe' = [probe EXCEPT ![p] =
                IF r.kind = "exc" THEN
                    Return(f, Outcome(FALSE, NoStatus,
                                      "SSL error: " \o Truncate(f.caught.msg, 50),
                                      "SSL/TLS handshake failed. Certificate may be expired, self-signed, or domain mismatch."))
                ELSE Return([f EXCEPT !.response = r], BypassOutcome(r, f.url))]
    /\ UNCHANGED <<net, engineVars, restVars>>

\* ------------------------------------------------------------------------
\* check_links
\* ------------------------------------------------------------------------

Record(source_file, link, reason, resolved_path, reason_details) ==
    [source_file |-> source_file, link |-> link, reason |-> reason,
     resolved_path |-> resolved_path, reason_details |-> reason_details]

\* the row written by writeheader: the field names
HeaderRow == Record("source_file", "link", "reason", "resolved_path", "reason_details")

NoRecord == Record("", "", "", "", "")

ClosedFile == [open |-> FALSE, buffer |-> << >>, disk |-> << >>]
IdleWdl == [pc |-> "idle", rec |-> NoRecord]

\* the first link position after <<ei, li>>; entries without links are
\* passed over (line 410), <<Len(manifest) + 1, 0>> when there is none
RECURSIVE NextPos(_, _, _)
NextPos(files, ei, li) ==
    IF ei > Len(files) THEN <<Len(files) + 1, 0>>
    ELSE IF li < Len(files[ei].links) THEN <<ei, li + 1>>
    ELSE NextPos(files, ei + 1, 0)

\* the message of the exception that open or json.load raises
JsonErrorMessage == "Expecting value: line 1 column 1 (char 0)"

\* the message of the exception that opening the report raises
CsvErrorMessage == "[Errno 13] Permission denied: '/repo/links-dead.csv'"

\* lines 355-361: json.load of the manifest
LoadJson ==
    /\ mainpc = "load"
    /\ mainpc' = IF cfg.json_ok THEN "open" ELSE "done"
    /\ stdout' = IF cfg.json_ok THEN stdout
                 ELSE Append(stdout, "Error loading JSON file: " \o JsonErrorMessage)
    /\ UNCHANGED <<otherVars, probeVars, cfg, manifest, fs, pos, external_links_to_check, futures,
                   checked_count, dead_links_count, csv_lock, csv_writer, csvfile, wdl>>

\* lines 366-377: open the report and write the header
OpenCsv ==
    /\ mainpc = "open"
    /\ IF cfg.csv_ok
       THEN /\ csvfile' = [open |-> TRUE, buffer |-> <<HeaderRow>>, disk |-> << >>]
            /\ csv_writer' = TRUE
       ELSE /\ csvfile' = ClosedFile
            /\ csv_writer' = FALSE
    /\ mainpc' = "scan"
    /\ pos' = NextPos(manifest, 1, 0)
    /\ stdout' = IF cfg.csv_ok THEN stdout
                 ELSE Append(stdout, "Warning: Could not open CSV file for writing: "
                                     \o CsvErrorMessage)
    /\ UNCHANGED <<otherVars, probeVars, cfg, manifest, fs, external_links_to_check, futures,
                   checked_count, dead_links_count, csv_lock, wdl>>

\* os.path.exists
exists(path) == path \in fs.files \cup fs.dirs

\* isfile that holds of a directory too
isfileOrDirectory(path) == path \in fs.files \cup fs.dirs

\* os.path.isfile
isfile(path) == path \in fs.files

\* LocalRecord that reports the resolved path as it is, absolute
LocalRecordAbsolutePath(source_path, link, target_file_abs, reason, details) ==
    Record(source_path, link, reason, target_file_abs, details)

\* the record for a local link that fails with the given reason
LocalRecord(source_path, link, target_file_abs, reason, details) ==
    Record(source_path, link, reason,
           ReplaceChar(relpath(target_file_abs, cfg.repo_root), "\\", "/"),
           details)

\* lines 438-477: the verdict on a local link, NoRecord when it passes
LocalVerdict(source_path, link) ==
    LET source_file_abs == pathjoin(cfg.repo_root, source_path)
        target_file_abs == normalize_path(link, source_file_abs)
        expected_type == guess_expected_type(link)
    IN  IF ~exists(target_file_abs) THEN
            LocalRecord(source_path, link, target_file_abs, "File not found",
                        "The referenced local file does not exist at the resolved path.")
        ELSE IF ~isfile(target_file_abs) THEN
            LocalRecord(source_path, link, target_file_abs, "Not a file (directory)",
                        "The link points to a directory instead of a file.")
        ELSE IF ~check_file_type(target_file_abs, expected_type) THEN
            LocalRecord(source_path, link, target_file_abs, "Invalid file type",
                        "File exists but has unexpected type. Expected: " \o expected_type)
        ELSE NoRecord

\* line 431: link.startswith(('javascript:', 'mailto:', 'tel:'))
StartsWithSkipped(link) ==
    \E pre \in {"javascript:", "mailto:", "tel:"} : StartsWith(link, pre)

\* ScanLink that leaves out a link some document has queued already
ScanLinkGlobalDedup ==
    /\ mainpc = "scan"
    /\ wdl.pc = "idle"
    /\ pos[1] <= Len(manifest)
    /\ LET source_path == manifest[pos[1]].path
           link == manifest[pos[1]].links[pos[2]]
           skipped == link = "" \/ Strip(link) = "" \/ StartsWith(link, "#")
           bad == ~skipped /\ urlparse(link).raises
           external == ~skipped /\ ~bad /\ is_external_link(link)
           queued == /\ external /\ ~StartsWithSkipped(link)
                     /\ \A i \in 1..Len(external_links_to_check) :
                           external_links_to_check[i][2] # link
           verdict == IF skipped \/ bad \/ external THEN NoRecord
                      ELSE LocalVerdict(source_path, link)
       IN  /\ mainpc' = IF bad THEN "raised" ELSE "scan"
           /\ pos' = IF bad THEN pos ELSE NextPos(manifest, pos[1], pos[2])
           /\ external_links_to_check' =
                 IF queued THEN Append(external_links_to_check, <<source_path, link>>)
                 ELSE external_links_to_check
           /\ wdl' = IF verdict # NoRecord THEN [pc |-> "acquire", rec |-> verdict] ELSE wdl
    /\ UNCHANGED <<restVars, probeVars, cfg, manifest, fs, futures, checked_count,
                   dead_links_count, csv_lock, csv_writer, csvfile>>

\* lines 417-477: one iteration of the loop over the links of an entry
ScanLink ==
    /\ mainpc = "scan"
    /\ wdl.pc = "idle"
    /\ pos[1] <= Len(manifest)
    /\ LET source_path == manifest[pos[1]].path
           link == manifest[pos[1]].links[pos[2]]
           skipped == link = "" \/ Strip(link) = "" \/ StartsWith(link, "#")
           bad == ~skipped /\ urlparse(link).raises
           external == ~skipped /\ ~bad /\ is_external_link(link)
           queued == external /\ ~StartsWithSkipped(link)
           verdict == IF skipped \/ bad \/ external THEN NoRecord
                      ELSE LocalVerdict(source_path, link)
       IN  /\ mainpc' = IF bad THEN "raised" ELSE "scan"
           /\ pos' = IF bad THEN pos ELSE NextPos(manifest, pos[1], pos[2])
           /\ external_links_to_check' =
                 IF queued THEN Append(external_links_to_check, <<source_path, link>>)
                 ELSE external_links_to_check
           /\ wdl' = IF verdict # NoRecord THEN [pc |-> "acquire", rec |-> verdict] ELSE wdl
    /\ UNCHANGED <<restVars, probeVars, cfg, manifest, fs, futures, checked_count,
                   dead_links_count, csv_lock, csv_writer, csvfile>>

\* ScanDone that leaves the loop as soon as a link is queued
ScanDoneAtFirstQueued ==
    /\ mainpc = "scan"
    /\ wdl.pc = "idle"
    /\ external_links_to_check # << >>
    /\ mainpc' = "submit"
    /\ UNCHANGED <<restVars, probeVars, cfg, manifest, fs, pos, external_links_to_check, futures,
                   checked_count, dead_links_count, csv_lock, csv_writer, csvfile, wdl>>

\* line 480: the local pass is over
ScanDone ==
    /\ mainpc = "scan"
    /\ wdl.pc = "idle"
    /\ pos[1] > Len(manifest)
    /\ mainpc' = IF external_links_to_check # << >> THEN "submit" ELSE "close"
    /\ UNCHANGED <<restVars, probeVars, cfg, manifest, fs, pos, external_links_to_check, futures,
                   checked_count, dead_links_count, csv_lock, csv_writer, csvfile, wdl>>

Future(source_path, link) ==
    [state |-> "queued", source_path |-> source_path, link |-> link,
     result |-> NoRecord, exc |-> "", yielded |-> FALSE]

\* lines 486-489: executor.submit of the next queued pair
Submit ==
    /\ mainpc = "submit"
    /\ LET t == Len(futures) + 1
           pair == external_links_to_check[t]
       IN  /\ futures' = Append(futures, Future(pair[1], pair[2]))
           /\ mainpc' = IF t = Len(external_links_to_check) THEN "collect" ELSE "submit"
    /\ UNCHANGED <<restVars, probeVars, cfg, manifest, fs, pos, external_links_to_check,
                   checked_count, dead_links_count, csv_lock, csv_writer, csvfile, wdl>>

Running == {t \in 1..Len(futures) : futures[t].state = "running"}
Queued == {t \in 1..Len(futures) : futures[t].state = "queued"}

\* a pool thread is free and takes the oldest queued task
FreeWorker == Cardinality(Running) < cfg.max_workers

TaskStart(t) ==
    /\ t \in Queued
    /\ \A u \in Queued : t <= u
    /\ FreeWorker
    /\ futures' = [futures EXCEPT ![t].state = "running"]
    /\ probe' = [p \in DOMAIN probe \cup {t} |->
                   IF p = t THEN NewProbe(futures[t].link, cfg.timeout) ELSE probe[p]]
    /\ UNCHANGED <<restVars, net, cfg, manifest, fs, mainpc, pos, external_links_to_check,
                   checked_count, dead_links_count, csv_lock, csv_writer, csvfile, wdl>>

\* TaskRecord that passes the reason on as it is
TaskRecordPlainReason(source_path, link, out) ==
    IF ~out.ok
    THEN Record(source_path, link, out.reason, link, out.detail)
    ELSE NoRecord

\* lines 390-400: what check_external_link_task makes of the outcome
TaskRecord(source_path, link, out) ==
    IF ~out.ok
    THEN LET status_info == IF out.status_code # NoStatus /\ out.status_code # 0
                            THEN " (" \o ToString(out.status_code) \o ")" ELSE ""
         IN  Record(source_path, link, out.reason \o status_info, link, out.detail)
    ELSE NoRecord

\* the message of the exception that urlparse raises
ValueErrorMessage == "Invalid IPv6 URL"

\* the message of the RecursionError the interpreter raises
RecursionErrorMessage == "maximum recursion depth exceeded while calling a Python object"

\* str(e) of the exception of class cls that left the task
ExcMessage(cls) ==
    IF cls = "ValueError" THEN ValueErrorMessage ELSE RecursionErrorMessage

\* check_external_link_task returns or raises; the future is done
TaskFinish(t) ==
    /\ t \in Running
    /\ probe[t].pc \in {"done", "raised"}
    /\ futures' = [futures EXCEPT ![t] =
          IF probe[t].pc = "raised"
          THEN [@ EXCEPT !.state = "finished", !.exc = ExcMessage(probe[t].raised)]
          ELSE [@ EXCEPT !.state = "finished",
                         !.result = TaskRecord(futures[t].source_path, futures[t].link,
                                               probe[t].outcome)]]
    /\ UNCHANGED <<restVars, probeVars, cfg, manifest, fs, mainpc, pos, external_links_to_check,
                   checked_count, dead_links_count, csv_lock, csv_writer, csvfile, wdl>>

\* Collect that takes a future before its task is over
CollectEarly(t) ==
    /\ mainpc = "collect"
    /\ wdl.pc = "idle"
    /\ t \in 1..Len(futures)
    /\ ~futures[t].yielded
    /\ futures' = [futures EXCEPT ![t].yielded = TRUE]
    /\ checked_count' = checked_count + 1
    /\ wdl' = IF futures[t].result # NoRecord
              THEN [pc |-> "acquire", rec |-> futures[t].result]
              ELSE wdl
    /\ UNCHANGED <<restVars, probeVars, cfg, manifest, fs, mainpc, pos, external_links_to_check,
                   dead_links_count, csv_lock, csv_writer, csvfile>>

\* Collect that hands the result of a passing task to write_dead_link too
CollectCountsPassing(t) ==
    /\ mainpc = "collect"
    /\ wdl.pc = "idle"
    /\ t \in 1..Len(futures)
    /\ futures[t].state = "finished"
    /\ ~futures[t].yielded
    /\ futures' = [futures EXCEPT ![t].yielded = TRUE]
    /\ checked_count' = checked_count + 1
    /\ wdl' = [pc |-> "acquire", rec |-> futures[t].result]
    /\ UNCHANGED <<restVars, probeVars, cfg, manifest, fs, mainpc, pos, external_links_to_check,
                   dead_links_count, csv_lock, csv_writer, csvfile>>

\* Collect that takes a task that raised for a task that passed
CollectDropsException(t) ==
    /\ mainpc = "collect"
    /\ wdl.pc = "idle"
    /\ t \in 1..Len(futures)
    /\ futures[t].state = "finished"
    /\ ~futures[t].yielded
    /\ futures' = [futures EXCEPT ![t].yielded = TRUE]
    /\ checked_count' = checked_count + 1
    /\ wdl' = IF futures[t].result # NoRecord
              THEN [pc |-> "acquire", rec |-> futures[t].result]
              ELSE wdl
    /\ UNCHANGED <<restVars, probeVars, cfg, manifest, fs, mainpc, pos, external_links_to_check,
                   dead_links_count, csv_lock, csv_writer, csvfile>>

\* lines 492-513: one iteration of the loop over as_completed
Collect(t) ==
    /\ mainpc = "collect"
    /\ wdl.pc = "idle"
    /\ t \in 1..Len(futures)
    /\ futures[t].state = "finished"
    /\ ~futures[t].yielded
    /\ futures' = [futures EXCEPT ![t].yielded = TRUE]
    /\ checked_count' = checked_count + 1
    /\ wdl' = IF futures[t].exc # ""
              THEN [pc |-> "acquire",
                    rec |-> Record(futures[t].source_path, futures[t].link,
                                   "Check failed: " \o Truncate(futures[t].exc, 50),
                                   futures[t].link,
                                   "Unexpected error during link check: "
                                   \o Truncate(futures[t].exc, 200))]
              ELSE IF futures[t].result # NoRecord
              THEN [pc |-> "acquire", rec |-> futures[t].result]
              ELSE wdl
    /\ UNCHANGED <<restVars, probeVars, cfg, manifest, fs, mainpc, pos, external_links_to_check,
                   dead_links_count, csv_lock, csv_writer, csvfile>>

\* as_completed is exhausted and the executor shuts down
CollectDone ==
    /\ mainpc = "collect"
    /\ wdl.pc = "idle"
    /\ \A t \in 1..Len(futures) : futures[t].yielded
    /\ mainpc' = "close"
    /\ UNCHANGED <<restVars, probeVars, cfg, manifest, fs, pos, external_links_to_check, futures,
                   checked_count, dead_links_count, csv_lock, csv_writer, csvfile, wdl>>

\* lines 515-522: close the report and return dead_links_count
CloseCsv ==
    /\ mainpc = "close"
    /\ csvfile' = IF csvfile.open
                  THEN [open |-> FALSE, buffer |-> << >>, disk |-> csvfile.disk \o csvfile.buffer]
                  ELSE csvfile
    /\ mainpc' = "done"
    /\ stdout' = Append(stdout, "Found " \o ToString(dead_links_count)
                                \o " dead or invalid links")
    /\ UNCHANGED <<otherVars, probeVars, cfg, manifest, fs, pos, external_links_to_check, futures,
                   checked_count, dead_links_count, csv_lock, csv_writer, wdl>>

\* WdlAcquire that enters without taking the lock
WdlAcquireNoLock ==
    /\ wdl.pc = "acquire"
    /\ wdl' = [wdl EXCEPT !.pc = "count"]
    /\ UNCHANGED <<restVars, probeVars, cfg, manifest, fs, mainpc, pos, external_links_to_check, futures,
                   checked_count, dead_links_count, csv_lock, csv_writer, csvfile>>

\* line 382: with csv_lock
WdlAcquire ==
    /\ wdl.pc = "acquire"
    /\ csv_lock = ""
    /\ csv_lock' = "main"
    /\ wdl' = [wdl EXCEPT !.pc = "count"]
    /\ UNCHANGED <<restVars, probeVars, cfg, manifest, fs, mainpc, pos, external_links_to_check, futures,
                   checked_count, dead_links_count, csv_writer, csvfile>>

\* line 383
WdlCount ==
    /\ wdl.pc = "count"
    /\ dead_links_count' = dead_links_count + 1
    /\ wdl' = [wdl EXCEPT !.pc = IF csv_writer THEN "write" ELSE "release"]
    /\ UNCHANGED <<restVars, probeVars, cfg, manifest, fs, mainpc, pos, external_links_to_check, futures,
                   checked_count, csv_lock, csv_writer, csvfile>>

\* line 385
WdlWriteRow ==
    /\ wdl.pc = "write"
    /\ csvfile' = [csvfile EXCEPT !.buffer = Append(@, wdl.rec)]
    /\ wdl' = [wdl EXCEPT !.pc = "flush"]
    /\ UNCHANGED <<restVars, probeVars, cfg, manifest, fs, mainpc, pos, external_links_to_check, futures,
                   checked_count, dead_links_count, csv_lock, csv_writer>>

\* line 386
WdlFlush ==
    /\ wdl.pc = "flush"
    /\ csvfile' = [csvfile EXCEPT !.disk = @ \o csvfile.buffer, !.buffer = << >>]
    /\ wdl' = [wdl EXCEPT !.pc = "release"]
    /\ UNCHANGED <<restVars, probeVars, cfg, manifest, fs, mainpc, pos, external_links_to_check, futures,
                   checked_count, dead_links_count, csv_lock, csv_writer>>

\* leaving the with block: the lock is released and the call returns
WdlRelease ==
    /\ wdl.pc = "release"
    /\ csv_lock' = ""
    /\ wdl' = IdleWdl
    /\ UNCHANGED <<restVars, probeVars, cfg, manifest, fs, mainpc, pos, external_links_to_check, futures,
                   checked_count, dead_links_count, csv_writer, csvfile>>

\* ------------------------------------------------------------------------
\* Inputs of check_links
\* ------------------------------------------------------------------------

\* the most entries a manifest has
MaxDocs == 2
\* the largest pool size tried
MaxWorkers == 2

RepoRoot == "/repo"

DocPath(k) == IF k = 1 THEN "index.html" ELSE "dir/d" \o ToString(k) \o ".html"

LinkLists ==
    {<<"#top", "mailto:a@b.com", "missing.png", "https://example.invalid/404">>,
     <<"a.png#frag?x=1", "sub", "http://example.invalid/">>,
     <<"", "  ", "?q=1", "MAILTO:a@b.com", "tel:+15550100", "javascript:void(0)",
       "index.html?v=1.js", "a.png">>,
     <<"http://[::1">>,
     << >>}

FileSystems ==
    {[files |-> {"/repo/index.html", "/repo/dir/d2.html", "/repo/dir/a.png"},
      dirs |-> {"/repo", "/repo/dir", "/repo/sub"}],
     [files |-> {"/repo/index.html", "/repo/missing.png", "/repo/a.png"},
      dirs |-> {"/repo", "/repo/dir", "/repo/dir/sub"}]}

\* a script: one fixed answer at every step
Script(head, get, retry, bypass) ==
    [s \in Steps |->
        IF s = "head" THEN {head}
        ELSE IF s = "get" THEN {get}
        ELSE IF s = "retry" THEN {retry}
        ELSE IF s = "bypass" THEN {bypass}
        ELSE {Fine}]

All404 == Script(Resp(404, "", FALSE), Resp(404, "", FALSE), Resp(404, "", FALSE), Resp(404, "", FALSE))
AllOk == Script(Resp(200, "", FALSE), Resp(200, "", FALSE), Resp(200, "", FALSE), Resp(200, "", FALSE))
Forbidden == Script(Resp(403, "", FALSE), Resp(403, "", FALSE), Resp(403, "", FALSE), Resp(403, "", FALSE))
BadCert == Script(CHOOSE e \in SSLErrors : TRUE, Resp(500, "", FALSE), Resp(500, "", FALSE), Resp(500, "", FALSE))

EngineURLs ==
    {"https://example.invalid/404", "http://example.invalid/", "MAILTO:a@b.com"}

Nets ==
    {[u \in EngineURLs |-> All404],
     [u \in EngineURLs |-> IF u = "https://example.invalid/404" THEN Forbidden ELSE AllOk],
     [u \in EngineURLs |-> IF u = "https://example.invalid/404" THEN BadCert ELSE All404]}

\* no call of normalize_path on its own
NormOff == [pc |-> "off", link |-> "", source_file_path |-> "", result |-> ""]

\* links-enum.py is not running
ExtractOff ==
    [pc |-> "off", filepath |-> "", content |-> "", links |-> << >>,
     seen |-> {}, unique_links |-> << >>, k |-> 0, failed |-> FALSE]
ScanOff ==
    [pc |-> "off", stack |-> << >>, root |-> "", files |-> {}, filename |-> "",
     filepath |-> "", relative_path |-> "", all_links |-> << >>, new_links |-> << >>,
     repeated_links |-> << >>, k |-> 0, result |-> << >>, global_seen_links |-> {},
     order |-> << >>]
EnumOff == repo = << >> /\ scan = ScanOff /\ extract = ExtractOff

\* netspeed is not running: no server, no client, no connection
NsOff ==
    [s_pc |-> "off", s_i |-> 0, s_out |-> << >>, s_end |-> "",
     c_pc |-> "off", c_i |-> 0, c_exit |-> NoStatus,
     conns |-> << >>, cur |-> 0, cap |-> 0]

\* main() of links-check.py is not running
MainOff ==
    [pc |-> "off", argv_ok |-> TRUE, workers |-> 32, timeout |-> DefaultTimeout,
     json |-> "ok", old_csv |-> "absent", csv_ok |-> TRUE, returned |-> NoStatus,
     exit_status |-> NoStatus]

\* nothing runs outside check_links and check_external_link
RestOff == norm = NormOff /\ EnumOff /\ main = MainOff /\ stdout = << >> /\ ns = NsOff

EngineOff ==
    /\ cfg = [repo_root |-> RepoRoot, max_workers |-> 1, timeout |-> DefaultTimeout,
              json_ok |-> FALSE, csv_ok |-> FALSE]
    /\ manifest = << >>
    /\ fs = [files |-> {}, dirs |-> {}]
    /\ mainpc = "off"
    /\ pos = <<1, 0>>
    /\ external_links_to_check = << >>
    /\ futures = << >>
    /\ checked_count = 0
    /\ dead_links_count = 0
    /\ csv_lock = ""
    /\ csv_writer = FALSE
    /\ csvfile = ClosedFile
    /\ wdl = IdleWdl

Init ==
    /\ \E w \in 1..MaxWorkers, jo \in BOOLEAN, co \in BOOLEAN :
          cfg = [repo_root |-> RepoRoot, max_workers |-> w, timeout |-> DefaultTimeout,
                 json_ok |-> jo, csv_ok |-> co]
    /\ \E d \in 1..MaxDocs : \E lists \in [1..d -> LinkLists] :
          manifest = [k \in 1..d |-> [path |-> DocPath(k), links |-> lists[k]]]
    /\ fs \in FileSystems
    /\ net \in Nets
    /\ probe = << >>
    /\ mainpc = "load"
    /\ pos = <<1, 0>>
    /\ external_links_to_check = << >>
    /\ futures = << >>
    /\ checked_count = 0
    /\ dead_links_count = 0
    /\ csv_lock = ""
    /\ csv_writer = FALSE
    /\ csvfile = ClosedFile
    /\ wdl = IdleWdl
    /\ RestOff

Next ==
    \/ LoadJson
    \/ OpenCsv
    \/ ScanLink
    \/ ScanDone
    \/ Submit
    \/ \E t \in 1..Len(futures) : TaskStart(t)
    \/ \E p \in DOMAIN probe : ProbeStart(p)
    \/ \E p \in DOMAIN probe : HeadRequest(p)
    \/ \E p \in DOMAIN probe : GetFallback(p)
    \/ \E p \in DOMAIN probe : CreateSession(p)
    \/ \E p \in DOMAIN probe : BuildHeaders(p)
    \/ \E p \in DOMAIN probe : RetryGet(p)
    \/ \E p \in DOMAIN probe : SessionClose(p)
    \/ \E p \in DOMAIN probe : SslBypassGet(p)
    \/ \E t \in 1..Len(futures) : TaskFinish(t)
    \/ \E t \in 1..Len(futures) : Collect(t)
    \/ CollectDone
    \/ CloseCsv
    \/ WdlAcquire
    \/ WdlCount
    \/ WdlWriteRow
    \/ WdlFlush
    \/ WdlRelease

Spec == Init /\ [][Next]_vars

\* ------------------------------------------------------------------------
\* check_links interrupted by the operator during the external phase
\* ------------------------------------------------------------------------

\* a KeyboardInterrupt is raised in the thread running check_links while it
\* is inside the with block of the executor (lines 484-513): no clause
\* there catches it (except Exception does not), so it unwinds the loop
\* and, when it lands inside write_dead_link, the with csv_lock block,
\* which releases the lock; what was written and not flushed stays in the
\* buffer of the file object
Interrupt ==
    /\ mainpc \in {"submit", "collect"}
    /\ mainpc' = "shutdown"
    /\ wdl' = IdleWdl
    /\ csv_lock' = ""
    /\ UNCHANGED <<restVars, probeVars, cfg, manifest, fs, pos, external_links_to_check, futures,
                   checked_count, dead_links_count, csv_writer, csvfile>>

\* line 484: ThreadPoolExecutor.__exit__ is shutdown(wait=True), which
\* joins the pool threads; they leave once the work queue is empty, then
\* the KeyboardInterrupt leaves check_links (lines 515-522 are not run)
ExecutorExit ==
    /\ mainpc = "shutdown"
    /\ \A t \in 1..Len(futures) : futures[t].state = "finished"
    /\ mainpc' = "interrupted"
    /\ UNCHANGED <<restVars, probeVars, cfg, manifest, fs, pos, external_links_to_check, futures,
                   checked_count, dead_links_count, csv_lock, csv_writer, csvfile, wdl>>

ShutdownNext ==
    \/ Next
    \/ Interrupt
    \/ ExecutorExit

ShutdownSpec == Init /\ [][ShutdownNext]_vars

\* ------------------------------------------------------------------------
\* check_links with a task that raises in the pool
\* ------------------------------------------------------------------------

\* an exception is raised in a pool thread outside the try of
\* check_external_link (lines 164-196 of the call, lines 390-400 of the
\* wrapper): the interpreter runs out of stack there; the call is left
\* before any request and the executor stores the exception in the future
TaskRaise(t) ==
    /\ t \in Running
    /\ probe[t].pc = "start"
    /\ probe' = [probe EXCEPT ![t] = [@ EXCEPT !.pc = "raised", !.raised = "RecursionError"]]
    /\ UNCHANGED <<net, engineVars, restVars>>

\* an HTTP layer under which one URL is forbidden and another has a bad
\* certificate
FaultNet ==
    [u \in EngineURLs |->
        IF u = "https://example.invalid/404" THEN Forbidden
        ELSE IF u = "http://example.invalid/" THEN BadCert
        ELSE All404]

\* the manifest loads and the report opens
FaultInit ==
    /\ \E w \in 1..MaxWorkers :
          cfg = [repo_root |-> RepoRoot, max_workers |-> w, timeout |-> DefaultTimeout,
                 json_ok |-> TRUE, csv_ok |-> TRUE]
    /\ \E d \in 1..MaxDocs : \E lists \in [1..d -> LinkLists] :
          manifest = [k \in 1..d |-> [path |-> DocPath(k), links |-> lists[k]]]
    /\ fs \in FileSystems
    /\ net = FaultNet
    /\ probe = << >>
    /\ mainpc = "load"
    /\ pos = <<1, 0>>
    /\ external_links_to_check = << >>
    /\ futures = << >>
    /\ checked_count = 0
    /\ dead_links_count = 0
    /\ csv_lock = ""
    /\ csv_writer = FALSE
    /\ csvfile = ClosedFile
    /\ wdl = IdleWdl
    /\ RestOff

FaultNext ==
    \/ Next
    \/ \E t \in 1..Len(futures) : TaskRaise(t)

FaultSpec == FaultInit /\ [][FaultNext]_vars

\* ------------------------------------------------------------------------
\* main() of links-check.py: the command line, the checks before the call
\* of check_links, the call and the summary
\* ------------------------------------------------------------------------

\* os.getcwd(), and the two paths made from it (lines 571-575)
script_dir == RepoRoot
json_file == pathjoin(script_dir, "links-list.json")
csv_file == pathjoin(script_dir, "links-dead.csv")

\* the values given to -w and to -t
WorkerArgs == {-1, 0, 1, 2}
TimeoutArgs == {-5, 0, DefaultTimeout}

\* the process ends: with status 0 when main() returns, 1 when an
\* exception leaves it, 2 when argparse rejects the command line
MainExit(status, lines) ==
    /\ main' = [main EXCEPT !.pc = "exit", !.exit_status = status]
    /\ stdout' = stdout \o lines

\* line 557: parse_args, both options being type=int
ParseArgs ==
    /\ main.pc = "parse"
    /\ IF main.argv_ok
       THEN main' = [main EXCEPT !.pc = "validate"] /\ stdout' = stdout
       ELSE MainExit(2, <<"error: argument -w/--workers: invalid int value">>)
    /\ UNCHANGED <<probeVars, engineVars, ns, norm, repo, scan, extract>>

\* ValidateArgs that tests the number of workers only
ValidateArgsWorkersOnly ==
    /\ main.pc = "validate"
    /\ IF main.workers < 1
       THEN MainExit(0, <<"Error: Number of workers must be at least 1">>)
       ELSE main' = [main EXCEPT !.pc = "exists"] /\ stdout' = stdout
    /\ UNCHANGED <<probeVars, engineVars, ns, norm, repo, scan, extract>>

\* lines 559-565
ValidateArgs ==
    /\ main.pc = "validate"
    /\ IF main.workers < 1
       THEN MainExit(0, <<"Error: Number of workers must be at least 1">>)
       ELSE IF main.timeout < 1
       THEN MainExit(0, <<"Error: Timeout must be at least 1 second">>)
       ELSE main' = [main EXCEPT !.pc = "exists"] /\ stdout' = stdout
    /\ UNCHANGED <<probeVars, engineVars, ns, norm, repo, scan, extract>>

\* lines 577-581
CheckJsonExists ==
    /\ main.pc = "exists"
    /\ IF main.json = "missing"
       THEN MainExit(0, <<"Error: " \o json_file \o " not found!",
                          "Please run links-enum.py first to generate the links list.">>)
       ELSE main' = [main EXCEPT !.pc = "delete"] /\ stdout' = stdout
    /\ UNCHANGED <<probeVars, engineVars, ns, norm, repo, scan, extract>>

\* lines 583-594: the report of an earlier run is removed
DeleteOldCsv ==
    /\ main.pc = "delete"
    /\ IF main.old_csv = "absent"
       THEN main' = [main EXCEPT !.pc = "call"] /\ stdout' = stdout
       ELSE IF main.old_csv = "present"
       THEN /\ main' = [main EXCEPT !.pc = "call", !.old_csv = "absent"]
            /\ stdout' = Append(stdout, "Deleted previous links-dead.csv")
       ELSE IF main.old_csv = "locked"
       THEN MainExit(0, <<"Warning: Could not delete links-dead.csv - file is locked!",
                          "The file may be open in another program. Please close it and try again.">>)
       ELSE MainExit(0, <<"Warning: Could not delete links-dead.csv: [Errno 21] Is a directory">>)
    /\ UNCHANGED <<probeVars, engineVars, ns, norm, repo, scan, extract>>

\* lines 597-603: check_links is entered with the arguments of main
CallCheckLinks ==
    /\ main.pc = "call"
    /\ mainpc = "off"
    /\ main' = [main EXCEPT !.pc = "running"]
    /\ cfg' = [repo_root |-> script_dir, max_workers |-> main.workers,
               timeout |-> main.timeout, json_ok |-> main.json = "ok",
               csv_ok |-> main.csv_ok]
    /\ mainpc' = "load"
    /\ UNCHANGED <<probeVars, manifest, fs, pos, external_links_to_check, futures,
                   checked_count, dead_links_count, csv_lock, csv_writer, csvfile, wdl,
                   norm, repo, scan, extract, stdout, ns>>

\* lines 605-625: check_links has returned; the summary, then main returns
Summary ==
    /\ main.pc = "running"
    /\ mainpc = "done"
    /\ main' = [main EXCEPT !.pc = "exit", !.returned = dead_links_count,
                            !.exit_status = 0]
    /\ stdout' = stdout \o
          <<"Results written to: links-dead.csv",
            IF dead_links_count # 0
            THEN "Found " \o ToString(dead_links_count) \o " dead or invalid links"
            ELSE "All links are valid!">>
    /\ UNCHANGED <<probeVars, engineVars, ns, norm, repo, scan, extract>>

\* the exception that left check_links leaves main: the traceback is
\* printed and the status is 1
Traceback ==
    /\ main.pc = "running"
    /\ mainpc = "raised"
    /\ MainExit(1, <<"ValueError: " \o ValueErrorMessage>>)
    /\ UNCHANGED <<probeVars, engineVars, ns, norm, repo, scan, extract>>

\* what is in the working directory and what the command line holds
MainInit ==
    /\ \E a \in BOOLEAN, w \in WorkerArgs, t \in TimeoutArgs,
          j \in {"missing", "unreadable", "ok"},
          o \in {"absent", "present", "locked", "undeletable"}, c \in BOOLEAN :
          main = [pc |-> "parse", argv_ok |-> a, workers |-> w, timeout |-> t,
                  json |-> j, old_csv |-> o, csv_ok |-> c, returned |-> NoStatus,
                  exit_status |-> NoStatus]
    /\ stdout = << >>
    /\ cfg = [repo_root |-> RepoRoot, max_workers |-> 1, timeout |-> DefaultTimeout,
              json_ok |-> FALSE, csv_ok |-> FALSE]
    /\ \E l \in LinkLists : manifest = <<[path |-> DocPath(1), links |-> l]>>
    /\ fs \in FileSystems
    /\ net \in Nets
    /\ probe = << >>
    /\ mainpc = "off"
    /\ pos = <<1, 0>>
    /\ external_links_to_check = << >>
    /\ futures = << >>
    /\ checked_count = 0
    /\ dead_links_count = 0
    /\ csv_lock = ""
    /\ csv_writer = FALSE
    /\ csvfile = ClosedFile
    /\ wdl = IdleWdl
    /\ norm = NormOff
    /\ EnumOff
    /\ ns = NsOff

MainNext ==
    \/ ParseArgs
    \/ ValidateArgs
    \/ CheckJsonExists
    \/ DeleteOldCsv
    \/ CallCheckLinks
    \/ Next
    \/ Summary
    \/ Traceback

MainSpec == MainInit /\ [][MainNext]_vars

\* ------------------------------------------------------------------------
\* check_external_link called on its own, the HTTP layer unconstrained
\* ------------------------------------------------------------------------

ProbeURLs ==
    {"https://example.invalid/404", "http://example.invalid/", "ftp://example.invalid/f",
     "http://[::1", "mailto:a@b.com", "MAILTO:a@b.com", "tel:+15550100",
     "javascript:void(0)", "TEL:+15550100", "JavaScript:void(0)", "missing.png"}

FreeNet == [u \in ProbeURLs |-> [s \in Steps |-> AnyAnswer(s)]]

ProbeInit ==
    /\ \E u \in ProbeURLs : probe = [p \in {0} |-> NewProbe(u, DefaultTimeout)]
    /\ net = FreeNet
    /\ EngineOff
    /\ RestOff

ProbeNext ==
    \/ \E p \in DOMAIN probe : ProbeStart(p)
    \/ \E p \in DOMAIN probe : HeadRequest(p)
    \/ \E p \in DOMAIN probe : GetFallback(p)
    \/ \E p \in DOMAIN probe : CreateSession(p)
    \/ \E p \in DOMAIN probe : BuildHeaders(p)
    \/ \E p \in DOMAIN probe : RetryGet(p)
    \/ \E p \in DOMAIN probe : SessionClose(p)
    \/ \E p \in DOMAIN probe : SslBypassGet(p)

ProbeSpec == ProbeInit /\ [][ProbeNext]_vars

\* ------------------------------------------------------------------------
\* normalize_path called on its own
\* ------------------------------------------------------------------------

NormLinks ==
    {"a.png#frag?x=1", "a.png?x=1#frag", "#top", "?q=1", "", "./b.html", "../up.html",
     "sub/../c.css", "sub/./d.js#x", "../../e.png", "/abs/f.png", "x//y", "sub/",
     "..#..", "."}

NormSources == {"dir/d.html", "index.html", "/repo/dir/d2.html", "/repo/index.html"}

NormInit ==
    /\ \E l \in NormLinks, src \in NormSources :
          norm = [pc |-> "call", link |-> l, source_file_path |-> src, result |-> ""]
    /\ probe = << >>
    /\ net = FreeNet
    /\ EngineOff
    /\ EnumOff
    /\ main = MainOff
    /\ ns = NsOff
    /\ stdout = << >>

\* lines 51-64: the call returns the path
NormalizeCall ==
    /\ norm.pc = "call"
    /\ norm' = [norm EXCEPT !.pc = "done",
                            !.result = normalize_path(norm.link, norm.source_file_path)]
    /\ UNCHANGED <<probeVars, engineVars, main, stdout, ns, repo, scan, extract>>

NormNext == NormalizeCall

NormSpec == NormInit /\ [][NormNext]_vars

\* ------------------------------------------------------------------------
\* links-enum.py: extract_links_from_html and scan_repository
\* ------------------------------------------------------------------------

Quotes == {"\"", "'"}

\* re.findall(attr + r'=["\'](.*?)["\']', content, re.IGNORECASE) from the
\* position i on, each match with the position it starts at: the value
\* ends at the first quote of either kind, and '.' matches no newline
RECURSIVE FindAllFrom(_, _, _)
FindAllFrom(content, attr, i) ==
    LET n == Len(attr)
        j == FindFrom(content, Quotes \cup {"\n"}, i + n + 2)
    IN  IF i + n + 2 > Len(content) THEN << >>
        ELSE IF /\ Lower(SubSeq(content, i, i + n - 1)) = attr
                /\ CharAt(content, i + n) = "="
                /\ CharAt(content, i + n + 1) \in Quotes
                /\ j <= Len(content)
                /\ CharAt(content, j) \in Quotes
             THEN <<[pos |-> i, val |-> SubSeq(content, i + n + 2, j - 1)]>>
                  \o FindAllFrom(content, attr, j + 1)
             ELSE FindAllFrom(content, attr, i + 1)

\* the list re.findall returns: the group of every match, in order
findall(attr, content) ==
    LET ms == FindAllFrom(content, attr, 1)
    IN  [k \in 1..Len(ms) |-> ms[k].val]

\* the documents the files of the repository may hold
Contents ==
    {"<a href=\"b.html\"><img src=\"a.png\"><a HREF='b.html'>",
     "<img src=\"a.png\"><a href=\"c.css\"><script SRC='a.png'>",
     "<a href='c.css\n'><a data-href=\"b.html\" href=\"\">"}

\* the marker of a file whose open or read raises
Unreadable == "<unreadable>"

\* the repository scanned: os.walk yields these directories
ScanRoot == "/repo"
DirFiles(dir) ==
    IF dir = "/repo" THEN {"index.html", "z.htm", "readme.txt", ".hidden.html", "links-enum.py"}
    ELSE IF dir = "/repo/docs" THEN {"a.html"}
    ELSE IF dir = "/repo/.git" THEN {"config.html"}
    ELSE {}
DirDirs(dir) == IF dir = "/repo" THEN {"docs", ".git"} ELSE {}

\* the files whose text the scan may read
HtmlFiles == {"/repo/index.html", "/repo/z.htm", "/repo/docs/a.html"}

\* the relative paths of the entries in the order sort() puts them
SortedPaths == <<"docs/a.html", "index.html", "readme.txt", "z.htm">>

EndsWith(s, suf) == Len(suf) <= Len(s) /\ SubSeq(s, Len(s) - Len(suf) + 1, Len(s)) = suf

\* the permutations of a finite set, as sequences
Perms(S) ==
    {q \in [1..Cardinality(S) -> S] : \A i, j \in 1..Cardinality(S) : q[i] = q[j] => i = j}

\* lines 26-28: open and read; a failure is caught at line 48 and the
\* empty list of line 25 is returned
ExtractRead ==
    /\ extract.pc = "read"
    /\ extract' = IF repo[extract.filepath] = Unreadable
                  THEN [extract EXCEPT !.pc = "return", !.failed = TRUE]
                  ELSE [extract EXCEPT !.pc = "findall", !.content = repo[extract.filepath]]
    /\ UNCHANGED <<probeVars, engineVars, main, stdout, ns, norm, repo, scan>>

\* lines 31-41: the href matches, then the src matches appended to them
ExtractFindall ==
    /\ extract.pc = "findall"
    /\ extract' = [extract EXCEPT
                      !.links = findall("href", extract.content)
                                \o findall("src", extract.content),
                      !.seen = {}, !.unique_links = << >>, !.k = 1, !.pc = "dedup"]
    /\ UNCHANGED <<probeVars, engineVars, main, stdout, ns, norm, repo, scan>>

\* ExtractDedup that appends every link, seen or not
ExtractDedupKeepsAll ==
    /\ extract.pc = "dedup"
    /\ extract' =
          IF extract.k > Len(extract.links)
          THEN [extract EXCEPT !.links = extract.unique_links, !.pc = "return"]
          ELSE LET link == extract.links[extract.k]
               IN  [extract EXCEPT !.seen = @ \cup {link},
                                   !.unique_links = Append(@, link),
                                   !.k = @ + 1]
    /\ UNCHANGED <<probeVars, engineVars, main, stdout, ns, norm, repo, scan>>

\* lines 42-46: one iteration of the loop over links, then line 46
ExtractDedup ==
    /\ extract.pc = "dedup"
    /\ extract' =
          IF extract.k > Len(extract.links)
          THEN [extract EXCEPT !.links = extract.unique_links, !.pc = "return"]
          ELSE LET link == extract.links[extract.k]
               IN  IF link \notin extract.seen
                   THEN [extract EXCEPT !.seen = @ \cup {link},
                                        !.unique_links = Append(@, link),
                                        !.k = @ + 1]
                   ELSE [extract EXCEPT !.k = @ + 1]
    /\ UNCHANGED <<probeVars, engineVars, main, stdout, ns, norm, repo, scan>>

\* line 51, and line 89 of the caller: all_links is the list returned
ExtractReturn ==
    /\ extract.pc = "return"
    /\ scan.pc = "extract"
    /\ extract' = [extract EXCEPT !.pc = "done"]
    /\ scan' = [scan EXCEPT !.all_links = extract.links, !.k = 1, !.pc = "classify"]
    /\ UNCHANGED <<probeVars, engineVars, main, stdout, ns, norm, repo>>

\* lines 70-72: os.walk yields the next directory; the hidden directories
\* are removed from dirs, the others are walked next, in any order
WalkDir ==
    /\ scan.pc = "walk"
    /\ scan.stack # << >>
    /\ LET root == Head(scan.stack)
           dirs == {d \in DirDirs(root) : ~StartsWith(d, ".")}
       IN  \E q \in Perms(dirs) :
              scan' = [scan EXCEPT
                          !.root = root,
                          !.files = DirFiles(root),
                          !.stack = [i \in 1..Len(q) |-> pathjoin(root, q[i])] \o Tail(scan.stack),
                          !.pc = "file"]
    /\ UNCHANGED <<probeVars, engineVars, main, stdout, ns, norm, repo, extract>>

\* lines 74-89: the next file of the directory, in any order
NextFile ==
    /\ scan.pc = "file"
    /\ \E filename \in scan.files :
         LET filepath == pathjoin(scan.root, filename)
             relative_path == ReplaceChar(relpath(filepath, ScanRoot), "\\", "/")
             sc == [scan EXCEPT !.files = @ \ {filename}]
             fr == [sc EXCEPT !.filename = filename, !.filepath = filepath,
                              !.relative_path = relative_path, !.all_links = << >>,
                              !.new_links = << >>, !.repeated_links = << >>, !.k = 1]
             html == EndsWith(filename, ".htm") \/ EndsWith(filename, ".html")
         IN  IF StartsWith(filename, ".") \/ filename = "links-enum.py"
             THEN scan' = sc /\ extract' = extract
             ELSE IF html
             THEN /\ scan' = [fr EXCEPT !.pc = "extract"]
                  /\ extract' = [ExtractOff EXCEPT !.pc = "read", !.filepath = filepath]
             ELSE scan' = [fr EXCEPT !.pc = "entry"] /\ extract' = extract
    /\ UNCHANGED <<probeVars, engineVars, main, stdout, ns, norm, repo>>

\* the files of the directory are exhausted
DirDone ==
    /\ scan.pc = "file"
    /\ scan.files = {}
    /\ scan' = [scan EXCEPT !.pc = "walk"]
    /\ UNCHANGED <<probeVars, engineVars, main, stdout, ns, norm, repo, extract>>

\* Classify that does not remember the links it has listed
ClassifyForgets ==
    /\ scan.pc = "classify"
    /\ scan' =
          IF scan.k > Len(scan.all_links) THEN [scan EXCEPT !.pc = "entry"]
          ELSE LET link == scan.all_links[scan.k]
               IN  IF link \notin scan.global_seen_links
                   THEN [scan EXCEPT !.new_links = Append(@, link), !.k = @ + 1]
                   ELSE [scan EXCEPT !.repeated_links = Append(@, link), !.k = @ + 1]
    /\ UNCHANGED <<probeVars, engineVars, main, stdout, ns, norm, repo, extract>>

\* lines 92-97: one iteration of the loop over all_links
Classify ==
    /\ scan.pc = "classify"
    /\ scan' =
          IF scan.k > Len(scan.all_links) THEN [scan EXCEPT !.pc = "entry"]
          ELSE LET link == scan.all_links[scan.k]
               IN  IF link \notin scan.global_seen_links
                   THEN [scan EXCEPT !.new_links = Append(@, link),
                                     !.global_seen_links = @ \cup {link},
                                     !.k = @ + 1]
                   ELSE [scan EXCEPT !.repeated_links = Append(@, link), !.k = @ + 1]
    /\ UNCHANGED <<probeVars, engineVars, main, stdout, ns, norm, repo, extract>>

\* lines 100-108: the entry of the file
AppendEntry ==
    /\ scan.pc = "entry"
    /\ LET file_entry ==
              [path |-> scan.relative_path,
               links |-> scan.new_links,
               link_count |-> Len(scan.new_links),
               repeated_links |-> scan.repeated_links,
               repeated_count |-> Len(scan.repeated_links),
               total_links_in_file |-> Len(scan.all_links)]
       IN  scan' = [scan EXCEPT
                       !.result = Append(@, file_entry),
                       !.order = Append(@, [path |-> scan.relative_path,
                                            all_links |-> scan.all_links]),
                       !.pc = "file"]
    /\ UNCHANGED <<probeVars, engineVars, main, stdout, ns, norm, repo, extract>>

\* list.sort(key=path): the entries by the rank of their path, stable
RECURSIVE SortByPath(_, _)
SortByPath(files, paths) ==
    IF paths = << >> THEN << >>
    ELSE SelectSeq(files, LAMBDA e : e.path = Head(paths)) \o SortByPath(files, Tail(paths))

\* lines 110-113: os.walk is exhausted; sort and return
SortFiles ==
    /\ scan.pc = "walk"
    /\ scan.stack = << >>
    /\ scan' = [scan EXCEPT !.result = SortByPath(scan.result, SortedPaths), !.pc = "done"]
    /\ UNCHANGED <<probeVars, engineVars, main, stdout, ns, norm, repo, extract>>

EnumInit ==
    /\ repo \in [HtmlFiles -> Contents \cup {Unreadable}]
    /\ scan = [ScanOff EXCEPT !.pc = "walk", !.stack = <<ScanRoot>>]
    /\ extract = ExtractOff
    /\ norm = NormOff
    /\ probe = << >>
    /\ net = FreeNet
    /\ EngineOff
    /\ main = MainOff
    /\ ns = NsOff
    /\ stdout = << >>

EnumNext ==
    \/ WalkDir
    \/ NextFile
    \/ DirDone
    \/ ExtractRead
    \/ ExtractFindall
    \/ ExtractDedup
    \/ ExtractReturn
    \/ Classify
    \/ AppendEntry
    \/ SortFiles

EnumSpec == EnumInit /\ [][EnumNext]_vars

\* ------------------------------------------------------------------------
\* Properties
\* ------------------------------------------------------------------------

Frames == {probe[p] : p \in DOMAIN probe}

HasStep(f, st) == \E i \in 1..Len(f.log) : f.log[i].step = st
StepEv(f, st) == f.log[CHOOSE i \in 1..Len(f.log) : f.log[i].step = st]

\* the step was answered with a response, and closing it did not raise
Answered(f, st) ==
    /\ HasStep(f, st)
    /\ StepEv(f, st).ans.kind = "resp"
    /\ StepEv(f, st).close.kind # "exc"

StatusOf(f, st) == StepEv(f, st).ans.status

Success(st) == 200 <= st /\ st < 400

\* a step of the escalation raised
EscalationRaised(f) ==
    \E i \in 1..Len(f.log) :
        /\ f.log[i].step \in {"session", "headers", "retry"}
        /\ (f.log[i].ans.kind = "exc" \/ f.log[i].close.kind = "exc")

\* the status of the last response received (and closed) by the call
LastStatus(f) ==
    LET got == {i \in 1..Len(f.log) :
                   f.log[i].ans.kind = "resp" /\ f.log[i].close.kind # "exc"}
    IN  IF got = {} THEN NoStatus
        ELSE f.log[CHOOSE i \in got : \A j \in got : j <= i].ans.status

\* C1: no call of check_external_link ends with an exception leaving it;
\* every call ends with an outcome.
C1_NoExceptionEscapes == \A f \in Frames : f.pc # "raised"

\* C3 as stated: after a 403 whose escalation request returns a status
\* outside [200,400), the outcome is that of the original 403.
C3_Original403Stands ==
    \A f \in Frames :
        (f.pc = "done" /\ Answered(f, "retry") /\ ~Success(StatusOf(f, "retry")))
        => /\ f.outcome.ok = FALSE
           /\ f.outcome.status_code = 403
           /\ f.outcome.reason = "HTTP 403"
           /\ StartsWith(f.outcome.detail, "Access forbidden. ")

\* C3 amended: after a 403 whose escalation request returns (and its
\* response is closed) with a status outside [200,400), the outcome is the
\* classification of the escalation response: ok false, that status, reason
\* "HTTP <that status>" and that status's explanation; it is the 403
\* classification only when the escalation itself returned 403.
C3_RetryResponseReported ==
    \A f \in Frames :
        (f.pc = "done" /\ Answered(f, "retry") /\ ~Success(StatusOf(f, "retry")))
        => LET rs == StatusOf(f, "retry")
           IN  /\ f.outcome.ok = FALSE
               /\ f.outcome.status_code = rs
               /\ f.outcome.reason = "HTTP " \o ToString(rs)
               /\ f.outcome.detail = get_http_error_details(rs, f.url, StepEv(f, "retry").ans)
               /\ (f.outcome.reason = "HTTP 403" <=> rs = 403)

C3_Witness ==
    \E f \in Frames :
        /\ f.pc = "done"
        /\ f.response.status = 404
        /\ Answered(f, "retry") /\ StatusOf(f, "retry") = 404
        /\ f.outcome.reason = "HTTP 404"

\* C4 as stated: after a 403 whose escalation request returns a status in
\* [200,400), the outcome is ok with a reason containing "enhanced retry".
C4_ReasonContainsLowercase ==
    \A f \in Frames :
        (f.pc = "done" /\ Answered(f, "retry") /\ Success(StatusOf(f, "retry")))
        => /\ f.outcome.ok = TRUE
           /\ Contains(f.outcome.reason, "enhanced retry")

\* C4 amended: after a 403 whose escalation request returns a status in
\* [200,400), the outcome is ok with that status and the reason is exactly
\* "OK (Enhanced retry)": it contains "Enhanced retry" with a capital E,
\* and "enhanced retry" only when letter case is ignored.
C4_EnhancedRetryOk ==
    \A f \in Frames :
        (f.pc = "done" /\ Answered(f, "retry") /\ Success(StatusOf(f, "retry")))
        => /\ f.outcome.ok = TRUE
           /\ f.outcome.status_code = StatusOf(f, "retry")
           /\ f.outcome.reason = "OK (Enhanced retry)"
           /\ Contains(f.outcome.reason, "Enhanced retry")
           /\ Contains(Lower(f.outcome.reason), "enhanced retry")

C4_Witness ==
    \E f \in Frames :
        /\ f.pc = "done"
        /\ Answered(f, "get") /\ StatusOf(f, "get") = 403
        /\ Answered(f, "retry") /\ StatusOf(f, "retry") = 301
        /\ f.outcome.ok

\* C5: when a step of the 403 escalation raises, the call still returns
\* the outcome of the original 403: ok false, status 403, reason "HTTP 403".
C5_EscalationFailureKeeps403 ==
    \A f \in Frames :
        (f.pc \in {"done", "raised"} /\ f.escalated /\ EscalationRaised(f))
        => /\ f.pc = "done"
           /\ f.outcome.ok = FALSE
           /\ f.outcome.status_code = 403
           /\ f.outcome.reason = "HTTP 403"

\* C6: the fallback GET is issued, after the HEAD, exactly when the HEAD
\* status is 403, 405, 501 or 503; once issued, its response decides
\* whether the escalation runs and, without escalation, is the verdict.
C6_GetFallbackIff ==
    \A f \in Frames :
        /\ HasStep(f, "head") => f.log[1].step = "head"
        /\ f.pc = "get" => StatusOf(f, "head") \in {403, 405, 501, 503}
        /\ HasStep(f, "get")
              => /\ f.log[2].step = "get"
                 /\ Answered(f, "head") /\ StatusOf(f, "head") \in {403, 405, 501, 503}
        /\ (f.pc \notin {"start", "head", "get"} /\ Answered(f, "head")
            /\ StatusOf(f, "head") \in {403, 405, 501, 503})
              => HasStep(f, "get")
        /\ Answered(f, "get") => (f.escalated <=> StatusOf(f, "get") = 403)
        /\ (Answered(f, "get") /\ ~f.escalated /\ f.pc = "done")
              => /\ f.outcome.status_code = StatusOf(f, "get")
                 /\ f.outcome.ok = Success(StatusOf(f, "get"))
        /\ (Answered(f, "head") /\ ~HasStep(f, "get") /\ f.pc = "done")
              => /\ ~f.escalated
                 /\ f.outcome.status_code = StatusOf(f, "head")

C6_Witness ==
    \E f \in Frames :
        /\ f.pc = "done"
        /\ Answered(f, "head") /\ StatusOf(f, "head") = 503
        /\ Answered(f, "get") /\ StatusOf(f, "get") = 200
        /\ f.outcome.ok /\ f.outcome.status_code = 200

C8_Reason404Everywhere ==
    \A f \in Frames :
        (f.pc = "done" /\ LastStatus(f) = 404)
        => /\ f.outcome.ok = FALSE
           /\ f.outcome.reason = "HTTP 404"
           /\ Contains(f.outcome.detail, "not found")

\* C8 amended: when the final response has status 404 the outcome is not
\* ok, carries status 404 and a detail containing "not found"; the reason
\* is exactly "HTTP 404" when the response came from the HEAD, the GET
\* fallback or the escalation retry, and "HTTP 404 (SSL Warning)" when it
\* came from the SSL-bypass GET.
C8_Reason404ByPath ==
    \A f \in Frames :
        (f.pc = "done" /\ LastStatus(f) = 404)
        => /\ f.outcome.ok = FALSE
           /\ f.outcome.status_code = 404
           /\ Contains(f.outcome.detail, "not found")
           /\ f.outcome.reason =
                 IF HasStep(f, "bypass") THEN "HTTP 404 (SSL Warning)" ELSE "HTTP 404"

C8_Witness ==
    \E f \in Frames :
        /\ f.pc = "done"
        /\ Answered(f, "bypass") /\ StatusOf(f, "bypass") = 404
        /\ f.outcome.reason = "HTTP 404 (SSL Warning)"

\* the report as a reader of the file and of its buffer sees it
Report == csvfile.disk \o csvfile.buffer

\* the places of the report that hold a row for the pair (source, link)
RowsFor(source_path, link) ==
    {i \in 1..Len(Report) :
        Report[i].source_file = source_path /\ Report[i].link = link}

\* the reason expected in the report for a probed link, "" for no row,
\* under each of the HTTP layers of Nets
ExpectedTaskReason(link) ==
    IF link = "MAILTO:a@b.com" THEN ""
    ELSE IF net[link] = All404 THEN "HTTP 404 (404)"
    ELSE IF net[link] = Forbidden THEN "HTTP 403 (403)"
    ELSE IF net[link] = BadCert THEN "HTTP 500 (SSL Warning) (500)"
    ELSE ""

\* C2: once the pool is drained, every submitted task has completed and
\* been counted exactly once, and (the report being open) the report holds
\* exactly one row for every task whose outcome fails and none for the
\* others; the rows are the same function of the links and of the HTTP
\* layer for every pool size and every order of completion.
C2_RowsMatchFailingOutcomes ==
    (mainpc \in {"close", "done"} /\ futures # << >>)
    => /\ Len(futures) = Len(external_links_to_check)
       /\ checked_count = Len(futures)
       /\ \A t \in 1..Len(futures) :
             /\ futures[t].state = "finished"
             /\ futures[t].yielded
             /\ probe[t].pc = "done"
             /\ csv_writer =>
                   /\ Cardinality(RowsFor(futures[t].source_path, futures[t].link))
                         = IF probe[t].outcome.ok THEN 0 ELSE 1
                   /\ LET want == ExpectedTaskReason(futures[t].link)
                      IN  IF want = ""
                          THEN RowsFor(futures[t].source_path, futures[t].link) = {}
                          ELSE \A i \in RowsFor(futures[t].source_path, futures[t].link) :
                                  Report[i].reason = want

\* two tasks under a pool of two, both failing, the row of the task
\* submitted second written before the row of the first
C2_Witness ==
    /\ mainpc = "done"
    /\ csv_writer
    /\ cfg.max_workers = 2
    /\ Len(futures) = 2
    /\ \E i \in RowsFor(futures[1].source_path, futures[1].link),
          j \in RowsFor(futures[2].source_path, futures[2].link) : j < i

C9_Scenario ==
    /\ manifest = <<[path |-> "index.html",
                     links |-> <<"#top", "mailto:a@b.com", "missing.png",
                                 "https://example.invalid/404">>]>>
    /\ "/repo/missing.png" \notin fs.files \cup fs.dirs
    /\ net["https://example.invalid/404"] = All404
    /\ cfg.json_ok
    /\ cfg.csv_ok

\* C9 as stated: in the end-to-end scenario the report holds exactly two
\* records, missing.png with reason "File not found" and the URL with
\* reason "HTTP 404", and none for "#top" or the mailto link.
C9_TwoRecordsHttp404 ==
    (C9_Scenario /\ mainpc = "done")
    => /\ Len(Report) = 3
       /\ Report[1] = HeaderRow
       /\ \E i \in RowsFor("index.html", "missing.png") : Report[i].reason = "File not found"
       /\ \E i \in RowsFor("index.html", "https://example.invalid/404") :
             Report[i].reason = "HTTP 404"
       /\ RowsFor("index.html", "#top") = {}
       /\ RowsFor("index.html", "mailto:a@b.com") = {}

\* C9 amended: in the end-to-end scenario the report holds exactly two
\* records, missing.png with reason "File not found" and the URL with
\* reason "HTTP 404 (404)" (the task wrapper appends the status code to
\* the reason of the probe), and none for "#top" or the mailto link; the
\* count returned is 2.
C9_TwoRecordsHttp404Status ==
    (C9_Scenario /\ mainpc = "done")
    => /\ Report =
            <<HeaderRow,
              Record("index.html", "missing.png", "File not found", "missing.png",
                     "The referenced local file does not exist at the resolved path."),
              Record("index.html", "https://example.invalid/404", "HTTP 404 (404)",
                     "https://example.invalid/404",
                     "Page not found. The URL does not exist on the server or has been moved/deleted.")>>
       /\ RowsFor("index.html", "#top") = {}
       /\ RowsFor("index.html", "mailto:a@b.com") = {}
       /\ dead_links_count = 2

C9_Witness ==
    /\ C9_Scenario
    /\ mainpc = "done"
    /\ Len(futures) = 1
    /\ probe[1].outcome.reason = "HTTP 404"
    /\ Len(csvfile.disk) = 3

InCriticalSection == wdl.pc \in {"count", "write", "flush", "release"}

\* C10: a thread is inside the critical section of write_dead_link exactly
\* while it holds csv_lock, so at most one is; and the counter and the
\* rows move together: outside the critical section the counter equals the
\* number of records in the report, inside it the only record counted and
\* not yet written is the one being written.
C10_WritesUnderLock ==
    /\ csv_lock \in {"", "main"}
    /\ InCriticalSection <=> csv_lock = "main"
    /\ csv_writer =>
          /\ dead_links_count = (Len(Report) - 1) + (IF wdl.pc = "write" THEN 1 ELSE 0)
          /\ wdl.pc \in {"flush", "release"} => Report[Len(Report)] = wdl.rec
    /\ ~InCriticalSection => csvfile.buffer \in {<< >>, <<HeaderRow>>}

\* the caller is writing a row while a pool thread is in a probe
C10_Witness ==
    /\ wdl.pc = "write"
    /\ csv_lock = "main"
    /\ mainpc = "collect"
    /\ Running # {}
    /\ dead_links_count = Len(Report)

\* the calls of write_dead_link that have returned: every record counted
\* but the one whose call is still between the count and the return
ReturnedWrites ==
    dead_links_count - (IF wdl.pc \in {"write", "flush", "release"} THEN 1 ELSE 0)

\* C11: in every state of a run whose report was opened, what is on disk
\* (what a termination at that point leaves) is the header followed by a
\* complete row for every record whose write_dead_link has returned, so
\* no row waits in the buffer for the end of the run.
C11_DiskHoldsHeaderAndReturnedRecords ==
    csv_writer =>
        /\ Len(csvfile.disk) >= 1 + ReturnedWrites
        /\ csvfile.disk[1] = HeaderRow
        /\ \A i \in 2..Len(csvfile.disk) :
              csvfile.disk[i] # HeaderRow /\ csvfile.disk[i] # NoRecord

\* the operator's interrupt has reached check_links
ShutdownRequested == mainpc \in {"shutdown", "interrupted"}

\* C12: once the interrupt has arrived during the external phase, no step
\* submits a task or moves a queued task to running, and the rows on disk
\* stay as they are.
C12_NoTaskStartsAfterShutdown ==
    [][ShutdownRequested =>
          /\ Len(futures') = Len(futures)
          /\ \A t \in 1..Len(futures) :
                futures[t].state = "queued" => futures'[t].state = "queued"
          /\ Len(csvfile'.disk) >= Len(csvfile.disk)
          /\ SubSeq(csvfile'.disk, 1, Len(csvfile.disk)) = csvfile.disk]_vars

\* the link is queued for the pool: not skipped, external, and not one of
\* the three prefixes of line 431
ProbeEligible(link) ==
    /\ link # "" /\ Strip(link) # "" /\ ~StartsWith(link, "#")
    /\ is_external_link(link)
    /\ ~StartsWithSkipped(link)

\* the links the manifests are made of
EngineLinks == UNION {{l[k] : k \in 1..Len(l)} : l \in LinkLists}

\* those of them that are eligible
EligibleLinks == {link \in EngineLinks : ~urlparse(link).raises /\ ProbeEligible(link)}

\* the places <<entry, link>> of the manifest that hold an eligible link
EligibleOccurrences ==
    {occ \in UNION {{<<e, k>> : k \in 1..Len(manifest[e].links)} : e \in 1..Len(manifest)} :
        manifest[occ[1]].links[occ[2]] \in EligibleLinks}

TasksFor(source_path, link) ==
    {t \in 1..Len(futures) : futures[t].source_path = source_path /\ futures[t].link = link}

SkipClass(link) ==
    \/ link = ""
    \/ Strip(link) = ""
    \/ StartsWith(link, "#")
    \/ \E sch \in {"mailto", "tel", "javascript"} : StartsWith(Lower(link), sch \o ":")

\* the links of the manifests and of the probes that are of these classes
SkippedLinks == {link \in EngineLinks \cup ProbeURLs : SkipClass(link)}

\* urlparse gives every link with one of the three schemes, in any letter
\* case, the scheme in lower case, which line 165 tests
SkippedSchemesParsed ==
    \A link \in SkippedLinks :
        \A sch \in {"mailto", "tel", "javascript"} :
            StartsWith(Lower(link), sch \o ":") =>
                ~urlparse(link).raises /\ urlparse(link).scheme = sch

\* C14: a link of the skipped classes never has a row in the report, is
\* never the record being written or the result of a task, and a call of
\* check_external_link on it never sends a request, whatever the
\* filesystem and the HTTP layer are.
C14_SkippedLinksSilent ==
    /\ SkippedSchemesParsed
    /\ \A i \in 1..Len(Report) : Report[i].link \notin SkippedLinks
    /\ wdl.pc # "idle" => wdl.rec.link \notin SkippedLinks
    /\ \A t \in 1..Len(futures) :
          futures[t].link \in SkippedLinks => futures[t].result = NoRecord /\ futures[t].exc = ""
    /\ \A p \in DOMAIN probe :
          probe[p].url \in SkippedLinks =>
              /\ probe[p].log = << >>
              /\ probe[p].pc \in {"start", "done"}
              /\ probe[p].pc = "done" => probe[p].outcome.ok

\* a run over entries holding links of every skipped class, ended with
\* the upper-case mailto link handed to the pool and skipped there, under
\* an HTTP layer that would answer 404
C14_Witness ==
    /\ mainpc = "done"
    /\ csv_writer
    /\ Len(manifest) = 2
    /\ manifest[1].links = <<"#top", "mailto:a@b.com", "missing.png",
                             "https://example.invalid/404">>
    /\ manifest[2].links = <<"", "  ", "?q=1", "MAILTO:a@b.com", "tel:+15550100",
                             "javascript:void(0)", "index.html?v=1.js", "a.png">>
    /\ net["MAILTO:a@b.com"] = All404
    /\ Len(futures) = 2
    /\ probe[2].url = "MAILTO:a@b.com"
    /\ probe[2].pc = "done" /\ probe[2].log = << >>
    /\ {"TEL:+15550100", "JavaScript:void(0)"} \subseteq SkippedLinks

\* the local links of the manifests: not skipped, and with none of the
\* external schemes
LocalLinks ==
    {link \in EngineLinks :
        /\ link # "" /\ Strip(link) # "" /\ ~StartsWith(link, "#")
        /\ ~is_external_link(link)}

\* the places <<entry, link>> of the manifest that hold a local link
LocalOccurrences ==
    {occ \in UNION {{<<e, k>> : k \in 1..Len(manifest[e].links)} : e \in 1..Len(manifest)} :
        manifest[occ[1]].links[occ[2]] \in LocalLinks}

\* the absolute path the link at occ resolves to
TargetOf(occ) ==
    normalize_path(manifest[occ[1]].links[occ[2]],
                   pathjoin(cfg.repo_root, manifest[occ[1]].path))

\* the rows of the report for the link at occ
RowsOf(occ) == RowsFor(manifest[occ[1]].path, manifest[occ[1]].links[occ[2]])

\* the loop over the entries has just ended, or the run is over, and the
\* report is open
LocalPassOver ==
    /\ cfg.json_ok
    /\ csv_writer
    /\ \/ mainpc = "submit" /\ futures = << >>
       \/ mainpc \in {"close", "done"}

\* C15: after the local pass, every local link whose resolved path is
\* neither a file nor a directory has exactly one row; its reason is
\* "File not found" and its resolved_path is relative and names, from the
\* repository root, the normalized path the link resolves to.
C15_MissingFileRecorded ==
    LocalPassOver =>
        \A occ \in LocalOccurrences :
            TargetOf(occ) \notin fs.files \cup fs.dirs =>
                /\ Cardinality(RowsOf(occ)) = 1
                /\ \A i \in RowsOf(occ) :
                      /\ Report[i].reason = "File not found"
                      /\ ~StartsWith(Report[i].resolved_path, "/")
                      /\ normpath(pathjoin(cfg.repo_root, Report[i].resolved_path))
                            = TargetOf(occ)

\* a.png#frag?x=1 listed by dir/d2.html where dir/a.png does not exist
C15_Witness ==
    /\ mainpc = "done"
    /\ "/repo/dir/a.png" \notin fs.files \cup fs.dirs
    /\ \E i \in 1..Len(csvfile.disk) :
          csvfile.disk[i] =
              Record("dir/d2.html", "a.png#frag?x=1", "File not found", "dir/a.png",
                     "The referenced local file does not exist at the resolved path.")

\* C16: after the local pass, every local link whose resolved path is a
\* directory has exactly one row, with reason "Not a file (directory)",
\* which is not the reason of a missing file.
C16_DirectoryRecorded ==
    LocalPassOver =>
        \A occ \in LocalOccurrences :
            TargetOf(occ) \in fs.dirs =>
                /\ Cardinality(RowsOf(occ)) = 1
                /\ \A i \in RowsOf(occ) :
                      /\ Report[i].reason = "Not a file (directory)"
                      /\ Report[i].reason # "File not found"
                      /\ normpath(pathjoin(cfg.repo_root, Report[i].resolved_path))
                            = TargetOf(occ)

\* the link sub listed by index.html where /repo/sub is a directory
C16_Witness ==
    /\ mainpc = "done"
    /\ "/repo/sub" \in fs.dirs
    /\ \E i \in 1..Len(csvfile.disk) :
          csvfile.disk[i] =
              Record("index.html", "sub", "Not a file (directory)", "sub",
                     "The link points to a directory instead of a file.")

\* the categories guess_expected_type returns
Categories ==
    {"html", "image", "script", "style", "document", "text", "xml", "archive", "other"}

\* check_file_type is true of every file of the filesystems and every
\* category
TypeCheckPasses ==
    \A f \in UNION {x.files : x \in FileSystems} : \A ty \in Categories :
        check_file_type(f, ty)

Remainder(link) == SubSeq(link, 1, FindFrom(link, {"#", "?"}, 1) - 1)

\* C18: the path returned by normalize_path is the source itself when
\* nothing is left of the link before its first '#' or '?', and otherwise
\* the normalized join of the directory of the source with what is left:
\* no '.' component, and '..' only at the front of a relative path; the
\* link a.png#frag?x=1 of dir/d.html gives dir/a.png.
C18_NormalizePath ==
    norm.pc = "done" =>
        LET rem == Remainder(norm.link)
            comps == Split(norm.result, "/")
        IN  /\ rem = "" => norm.result = norm.source_file_path
            /\ rem # "" =>
                  /\ norm.result = normpath(pathjoin(dirname(norm.source_file_path), rem))
                  /\ \A i \in 1..Len(comps) :
                        /\ comps[i] = "." => norm.result = "."
                        /\ comps[i] = ".." =>
                              /\ ~StartsWith(norm.result, "/")
                              /\ \A j \in 1..i : comps[j] = ".."
            /\ (norm.link = "a.png#frag?x=1" /\ norm.source_file_path = "dir/d.html")
                  => norm.result = "dir/a.png"
            /\ (norm.link = "a.png?x=1#frag" /\ norm.source_file_path = "dir/d.html")
                  => norm.result = "dir/a.png"

\* the example of the claim has been computed
C18_Witness ==
    /\ norm.pc = "done"
    /\ norm.link = "a.png#frag?x=1"
    /\ norm.source_file_path = "dir/d.html"
    /\ norm.result = "dir/a.png"

\* the elements of a sequence
Range(q) == {q[i] : i \in 1..Len(q)}

\* the call of extract_links_from_html returns its list
Extracted == extract.pc = "return"

\* the place in the document where the value v first appears, hm and sm
\* being the href and the src matches
FirstAppearance(hm, sm, v) ==
    LET at == {m.pos : m \in {x \in Range(hm) \cup Range(sm) : x.val = v}}
    IN  CHOOSE n \in at : \A k \in at : n <= k

\* the place of v in the list of the href values followed by the src values
HrefThenSrcPlace(hm, sm, v) ==
    LET hs == {i \in 1..Len(hm) : hm[i].val = v}
        ss == {i \in 1..Len(sm) : sm[i].val = v}
    IN  IF hs # {} THEN CHOOSE n \in hs : \A k \in hs : n <= k
        ELSE Len(hm) + (CHOOSE n \in ss : \A k \in ss : n <= k)

\* the list returned holds every href or src value of the document once
EachValueOnce(hm, sm) ==
    /\ \A i, j \in 1..Len(extract.links) : extract.links[i] = extract.links[j] => i = j
    /\ Range(extract.links) = {m.val : m \in Range(hm) \cup Range(sm)}

\* two files scanned with the same text gave the same list
SameTextSameList ==
    \A a, b \in 1..Len(scan.order) :
        LET fa == pathjoin(ScanRoot, scan.order[a].path)
            fb == pathjoin(ScanRoot, scan.order[b].path)
        IN  (fa \in DOMAIN repo /\ fb \in DOMAIN repo /\ repo[fa] = repo[fb])
            => scan.order[a].all_links = scan.order[b].all_links

\* C19 as stated: the list returned holds each distinct href or src value
\* of the document once, in the order in which the values first appear in
\* the document, and the same text gives the same list.
C19_OrderOfFirstAppearance ==
    /\ (Extracted /\ ~extract.failed) =>
          LET hm == FindAllFrom(extract.content, "href", 1)
              sm == FindAllFrom(extract.content, "src", 1)
              place == [v \in Range(extract.links) |-> FirstAppearance(hm, sm, v)]
          IN  /\ EachValueOnce(hm, sm)
              /\ \A i, j \in 1..Len(extract.links) :
                    i < j => place[extract.links[i]] < place[extract.links[j]]
    /\ scan.pc = "file" => SameTextSameList

\* C19 amended: the list returned holds each distinct href or src value of
\* the document once, the href values first, in the order of their first
\* match, then the src values that are no href value, in the order of
\* their first match; a file that cannot be read gives the empty list; and
\* the same text gives the same list.
C19_HrefValuesThenSrcValues ==
    /\ (Extracted /\ ~extract.failed) =>
          LET hm == FindAllFrom(extract.content, "href", 1)
              sm == FindAllFrom(extract.content, "src", 1)
              place == [v \in Range(extract.links) |-> HrefThenSrcPlace(hm, sm, v)]
          IN  /\ EachValueOnce(hm, sm)
              /\ \A i, j \in 1..Len(extract.links) :
                    i < j => place[extract.links[i]] < place[extract.links[j]]
    /\ (Extracted /\ extract.failed) => extract.links = << >>
    /\ scan.pc = "file" => SameTextSameList

\* a document whose first link is a src and whose src value occurs twice
\* is returned with the href value first, as it was for a file with the
\* same text scanned before
C19_Witness ==
    /\ extract.pc = "return"
    /\ ~extract.failed
    /\ extract.content = "<img src=\"a.png\"><a href=\"c.css\"><script SRC='a.png'>"
    /\ extract.links = <<"c.css", "a.png">>
    /\ \E a \in 1..Len(scan.order) :
          /\ pathjoin(ScanRoot, scan.order[a].path) \in DOMAIN repo
          /\ repo[pathjoin(ScanRoot, scan.order[a].path)] = extract.content
          /\ scan.order[a].all_links = <<"c.css", "a.png">>

\* the place of the file in the order of the scan
ScanPlace(path) == CHOOSE a \in 1..Len(scan.order) : scan.order[a].path = path

ManifestUnusable ==
    /\ main.pc = "exit"
    /\ main.argv_ok /\ main.workers >= 1 /\ main.timeout >= 1
    /\ \/ main.json = "missing"
       \/ main.json = "unreadable" /\ main.old_csv = "absent"

\* a line of the output says that the manifest is missing or not loaded
ManifestMessagePrinted ==
    \E i \in 1..Len(stdout) :
        \/ stdout[i] = "Error: /repo/links-list.json not found!"
        \/ StartsWith(stdout[i], "Error loading JSON file: ")

\* C21: a run whose manifest is missing or unreadable ends without any
\* probe started or request sent, with an operator message printed, and
\* with an exit status other than 0.
C21_AbortsWithNonzeroExit ==
    ManifestUnusable =>
        /\ futures = << >> /\ probe = << >>
        /\ ManifestMessagePrinted
        /\ main.exit_status # 0

\* the command line parses and gives a pool size or a timeout that is <= 0
InvalidConfiguration ==
    main.pc # "off" /\ main.argv_ok /\ (main.workers <= 0 \/ main.timeout <= 0)

\* C22: in a run whose pool size or timeout is <= 0, check_links is never
\* entered: no task is submitted, no probe starts, the report is never
\* opened and the report of an earlier run is left as it was; the run ends
\* with the message that names the rejected value.
C22_InvalidValuesRejected ==
    InvalidConfiguration =>
        /\ mainpc = "off"
        /\ main.pc \in {"parse", "validate", "exit"}
        /\ external_links_to_check = << >> /\ futures = << >> /\ probe = << >>
        /\ ~csv_writer /\ csvfile = ClosedFile
        /\ main.pc = "exit" =>
              /\ main.returned = NoStatus
              /\ stdout = IF main.workers <= 0
                          THEN <<"Error: Number of workers must be at least 1">>
                          ELSE <<"Error: Timeout must be at least 1 second">>

\* a run with a valid pool size and a timeout of 0 has been rejected, the
\* report of an earlier run still in place
C22_Witness ==
    /\ main.pc = "exit"
    /\ main.argv_ok
    /\ main.workers = 2 /\ main.timeout = 0
    /\ main.old_csv = "present"
    /\ main.json = "ok"
    /\ manifest[1].links # << >>
    /\ stdout = <<"Error: Timeout must be at least 1 second">>

\* the request of step st was answered with a TLS/certificate error
SslFailedAt(f, st) ==
    /\ HasStep(f, st)
    /\ StepEv(f, st).ans.kind = "exc"
    /\ StepEv(f, st).ans.cls = "SSLError"

\* the number of GETs sent with verification disabled
BypassCount(f) == Cardinality({i \in 1..Len(f.log) : f.log[i].step = "bypass"})

\* C23 as stated: when any request of the probe (HEAD, GET fallback or
\* escalation GET) fails with a TLS error, exactly one GET without
\* verification follows; a successful one gives ok with "(SSL Warning)" in
\* the reason and a detail saying verification failed, a failing one gives
\* not ok with the handshake-failed detail.
C23_EveryTlsErrorBypassed ==
    \A f \in Frames :
        (f.pc = "done" /\ \E st \in {"head", "get", "retry"} : SslFailedAt(f, st))
        => /\ BypassCount(f) = 1
           /\ (Answered(f, "bypass") /\ Success(StatusOf(f, "bypass")))
                 => /\ f.outcome.ok
                    /\ Contains(f.outcome.reason, "(SSL Warning)")
                    /\ Contains(f.outcome.detail, "verification failed")
           /\ (HasStep(f, "bypass") /\ StepEv(f, "bypass").ans.kind = "exc")
                 => /\ ~f.outcome.ok
                    /\ Contains(f.outcome.detail, "SSL/TLS handshake failed")

\* C23 amended: when the HEAD or the GET fallback fails with a TLS error
\* exactly one GET without verification follows, as the last request of
\* the call, and no GET without verification is sent otherwise. A status
\* in [200,400) gives ok with that status, reason "OK (SSL Warning)" and a
\* detail saying verification failed; another status gives not ok with
\* reason "HTTP <status> (SSL Warning)" and a detail beginning "SSL
\* certificate issue. "; an exception gives not ok, no status, a reason
\* beginning "SSL error: " and the handshake-failed detail. A TLS error of
\* the escalation GET is swallowed: no GET without verification follows
\* and the verdict is that of the 403 received before.
C23_TlsErrorBeforeEscalationBypassed ==
    \A f \in Frames :
        /\ BypassCount(f) <= 1
        /\ HasStep(f, "bypass") <=>
              (f.pc = "done" /\ (SslFailedAt(f, "head") \/ SslFailedAt(f, "get")))
        /\ (SslFailedAt(f, "head") \/ SslFailedAt(f, "get")) => f.pc \in {"sslget", "done"}
        /\ HasStep(f, "bypass") =>
              LET ev == f.log[Len(f.log)]
              IN  /\ ev.step = "bypass"
                  /\ ev.ans.kind = "resp" /\ Success(ev.ans.status) =>
                        /\ f.outcome.ok
                        /\ f.outcome.status_code = ev.ans.status
                        /\ f.outcome.reason = "OK (SSL Warning)"
                        /\ Contains(f.outcome.detail, "verification failed")
                  /\ ev.ans.kind = "resp" /\ ~Success(ev.ans.status) =>
                        /\ ~f.outcome.ok
                        /\ f.outcome.status_code = ev.ans.status
                        /\ f.outcome.reason
                              = "HTTP " \o ToString(ev.ans.status) \o " (SSL Warning)"
                        /\ StartsWith(f.outcome.detail, "SSL certificate issue. ")
                  /\ ev.ans.kind = "exc" =>
                        /\ ~f.outcome.ok
                        /\ f.outcome.status_code = NoStatus
                        /\ StartsWith(f.outcome.reason, "SSL error: ")
                        /\ StartsWith(f.outcome.detail, "SSL/TLS handshake failed.")
        /\ (f.pc = "done" /\ SslFailedAt(f, "retry")) =>
              /\ ~HasStep(f, "bypass")
              /\ ~f.outcome.ok
              /\ f.outcome.status_code = 403
              /\ f.outcome.reason = "HTTP 403"

\* the HEAD answered 503, the GET fallback failed with a TLS error, and the
\* GET without verification answered 200
C23_Witness ==
    \E f \in Frames :
        /\ f.pc = "done"
        /\ Answered(f, "head") /\ StatusOf(f, "head") = 503
        /\ SslFailedAt(f, "get")
        /\ Answered(f, "bypass") /\ StatusOf(f, "bypass") = 200
        /\ f.outcome = Outcome(TRUE, 200, "OK (SSL Warning)",
                               "SSL certificate verification failed but site is accessible")

\* the path each local link of each entry resolves to under RepoRoot
LocalTargets ==
    [occ \in {DocPath(k) : k \in 1..MaxDocs} \X LocalLinks |->
        normalize_path(occ[2], pathjoin(RepoRoot, occ[1]))]

\* the local link at occ fails: its target is missing or is a directory
\* (lines 443 and 455; the type check of line 468 fails no file)
LocalFails(occ) ==
    LocalTargets[<<manifest[occ[1]].path, manifest[occ[1]].links[occ[2]]>>] \notin fs.files

\* the rows on disk for the link at occ
DiskRowsOf(occ) ==
    {i \in 1..Len(csvfile.disk) :
        /\ csvfile.disk[i].source_file = manifest[occ[1]].path
        /\ csvfile.disk[i].link = manifest[occ[1]].links[occ[2]]}

\* C24: while the entries are being enumerated nothing is submitted and no
\* probe exists; once a task has been submitted every entry has been
\* enumerated, every failing local link has been counted and has its row
\* on disk, every passing one has none, and no record of a local link is
\* being written; the only thread that writes is the caller.
C24_ProbesAfterLocalPass ==
    /\ mainpc \in {"load", "open", "scan", "raised"} => futures = << >> /\ probe = << >>
    /\ DOMAIN probe \subseteq 1..Len(futures)
    /\ csv_lock \in {"", "main"}
    /\ futures # << >> =>
          /\ pos[1] > Len(manifest)
          /\ wdl.pc # "idle" => wdl.rec.link \notin LocalLinks
          /\ dead_links_count >= Cardinality({occ \in LocalOccurrences : LocalFails(occ)})
          /\ csv_writer =>
                \A occ \in LocalOccurrences :
                    Cardinality(DiskRowsOf(occ)) = IF LocalFails(occ) THEN 1 ELSE 0
    /\ (mainpc = "submit" /\ futures = << >>) =>
          dead_links_count = Cardinality({occ \in LocalOccurrences : LocalFails(occ)})

\* the first entry queued a URL and the second listed a missing file after
\* it: the row of the missing file is on disk and the probe of the URL has
\* started and sent nothing yet
C24_Witness ==
    /\ Len(manifest) = 2
    /\ manifest[1].links = <<"#top", "mailto:a@b.com", "missing.png",
                             "https://example.invalid/404">>
    /\ manifest[2].links = <<"a.png#frag?x=1", "sub", "http://example.invalid/">>
    /\ csv_writer
    /\ futures # << >> /\ futures[1].state = "running"
    /\ 1 \in DOMAIN probe /\ probe[1].log = << >>
    /\ \E i \in 1..Len(csvfile.disk) :
          csvfile.disk[i].source_file = "dir/d2.html" /\ csvfile.disk[i].link = "sub"

\* the HEAD/GET-fallback step is over: the HEAD was answered and, when its
\* status asked for the GET, the GET was answered too
FallbackStepOver(f) ==
    /\ Answered(f, "head")
    /\ StatusOf(f, "head") \in {403, 405, 501, 503} => Answered(f, "get")

\* the status the step leaves in `response`
StatusAfterFallback(f) ==
    IF HasStep(f, "get") THEN StatusOf(f, "get") ELSE StatusOf(f, "head")

\* C25: a call enters the 403 escalation exactly when the HEAD/GET-fallback
\* step is over with the status 403, and sends the escalation request only
\* then; after a HEAD 403 and a GET with another status there is no
\* escalation, after a HEAD 405, 501 or 503 and a GET 403 there is.
C25_EscalationIffStatus403 ==
    \A f \in Frames :
        /\ f.escalated <=> (FallbackStepOver(f) /\ StatusAfterFallback(f) = 403)
        /\ (\E st \in {"session", "headers", "retry"} : HasStep(f, st)) => f.escalated
        /\ f.pc \in {"session", "headers", "retry", "sessclose"} => f.escalated
        /\ (Answered(f, "head") /\ StatusOf(f, "head") = 403
            /\ Answered(f, "get") /\ StatusOf(f, "get") # 403)
              => ~f.escalated /\ ~HasStep(f, "retry") /\ f.pc = "done"
        /\ (Answered(f, "head") /\ StatusOf(f, "head") \in {405, 501, 503}
            /\ Answered(f, "get") /\ StatusOf(f, "get") = 403)
              => f.escalated /\ f.pc # "get"

\* HEAD 501, GET 403, and the escalation request sent
C25_Witness ==
    \E f \in Frames :
        /\ f.pc = "done"
        /\ Answered(f, "head") /\ StatusOf(f, "head") = 501
        /\ Answered(f, "get") /\ StatusOf(f, "get") = 403
        /\ f.escalated
        /\ HasStep(f, "retry")

\* the failing local links the loop over the entries has passed
LocalFailuresDecided ==
    {occ \in LocalOccurrences :
        /\ cfg.json_ok
        /\ LocalFails(occ)
        /\ \/ mainpc \notin {"load", "open", "scan", "raised"}
           \/ occ[1] < pos[1]
           \/ occ[1] = pos[1] /\ occ[2] < pos[2]}

\* the tasks the loop over as_completed has taken and found failing
TaskFailuresDecided ==
    {t \in 1..Len(futures) :
        futures[t].yielded /\ (futures[t].result # NoRecord \/ futures[t].exc # "")}

\* C26: the counter is the number of failing verdicts decided so far, less
\* the one whose call of write_dead_link has not reached line 383, so every
\* record handed to write_dead_link is counted once and a passing link is
\* never counted; the rows of the report are the records counted, less the
\* one being written; at the end the counter is the number of failing
\* local links plus the number of tasks whose outcome is not ok and, the
\* report having been opened, the number of data rows on disk.
C26_CounterIsFailingVerdicts ==
    /\ dead_links_count
          = Cardinality(LocalFailuresDecided) + Cardinality(TaskFailuresDecided)
            - (IF wdl.pc \in {"acquire", "count"} THEN 1 ELSE 0)
    /\ csv_writer =>
          Len(Report) - 1 = dead_links_count - (IF wdl.pc = "write" THEN 1 ELSE 0)
    /\ ~csv_writer => Report = << >>
    /\ mainpc = "done" =>
          /\ wdl.pc = "idle"
          /\ dead_links_count
                = (IF cfg.json_ok
                   THEN Cardinality({occ \in LocalOccurrences : LocalFails(occ)}) ELSE 0)
                  + Cardinality({t \in 1..Len(futures) : ~probe[t].outcome.ok})
          /\ csv_writer =>
                /\ csvfile.disk[1] = HeaderRow
                /\ Len(csvfile.disk) - 1 = dead_links_count

\* index.html lists a.png, which is a file, sub, which is missing, and a
\* URL that answers 200: one record counted, one data row on disk
C26_Witness ==
    /\ mainpc = "done"
    /\ csv_writer
    /\ manifest = <<[path |-> "index.html",
                     links |-> <<"a.png#frag?x=1", "sub", "http://example.invalid/">>]>>
    /\ "/repo/a.png" \in fs.files
    /\ Len(futures) = 1 /\ probe[1].outcome.ok
    /\ dead_links_count = 1
    /\ Len(csvfile.disk) = 2

\* the number of entries of the history of f for a step in S
CountSteps(f, S) == Cardinality({i \in 1..Len(f.log) : f.log[i].step \in S})

\* at most three requests: one HEAD, at most one GET fallback, and at most
\* one of the escalation GET and the GET without verification; the
\* escalation is entered at most once
RequestBound ==
    \A f \in Frames :
        /\ CountSteps(f, {"head", "get", "retry", "bypass"}) <= 3
        /\ CountSteps(f, {"head"}) <= 1
        /\ CountSteps(f, {"get"}) <= 1
        /\ CountSteps(f, {"retry", "bypass"}) <= 1
        /\ CountSteps(f, {"session"}) <= 1
        /\ f.log # << >> => f.log[1].step = "head"

\* a call that has nothing left to execute has returned an outcome
EndsWithOutcome ==
    \A f \in Frames :
        (~ENABLED ProbeNext) => f.pc = "done" /\ f.outcome # NoOutcome

\* C27: every call of check_external_link sends at most three requests
\* (HEAD, at most one GET fallback, at most one of escalation and
\* unverified GET), escalates at most once, and, every request returning
\* or raising, ends with an outcome.
C27_AtMostThreeRequestsAndOutcome ==
    /\ RequestBound
    /\ EndsWithOutcome

\* the tasks that ended with an exception
RaisedTasks == {t \in 1..Len(futures) : futures[t].exc # ""}

\* the record of task t is between its hand-over and its write
BeingWritten(t) ==
    /\ wdl.pc \in {"acquire", "count", "write"}
    /\ wdl.rec.source_file = futures[t].source_path
    /\ wdl.rec.link = futures[t].link

\* C28: a task that raised in the pool does not end the run: once the loop
\* has taken it and the report is open, the report holds exactly one row
\* for its document and link, with the reason "Check failed: " followed by
\* the first 50 characters of the message; before that it holds none; and
\* the loop ends only when every task has been taken, each counted once.
C28_TaskExceptionRecorded ==
    /\ RaisedTasks # {} => mainpc \in {"submit", "collect", "close", "done"}
    /\ \A t \in RaisedTasks :
          LET rows == RowsFor(futures[t].source_path, futures[t].link)
          IN  /\ futures[t].state = "finished"
              /\ ~futures[t].yielded => rows = {}
              /\ (futures[t].yielded /\ csv_writer /\ ~BeingWritten(t)) =>
                    /\ Cardinality(rows) = 1
                    /\ \A i \in rows :
                          /\ StartsWith(Report[i].reason, "Check failed:")
                          /\ Report[i] =
                                Record(futures[t].source_path, futures[t].link,
                                       "Check failed: " \o Truncate(futures[t].exc, 50),
                                       futures[t].link,
                                       "Unexpected error during link check: "
                                       \o Truncate(futures[t].exc, 200))
    /\ (RaisedTasks # {} /\ mainpc \in {"close", "done"}) =>
          /\ Len(futures) = Len(external_links_to_check)
          /\ checked_count = Len(futures)
          /\ \A u \in 1..Len(futures) : futures[u].state = "finished" /\ futures[u].yielded

\* two tasks, the first raised and the second, taken after it, failed on
\* the certificate: the report holds the "Check failed" row and then the
\* row of the second
C28_Witness ==
    /\ mainpc = "done"
    /\ csv_writer
    /\ Len(futures) = 2
    /\ futures[1].exc = RecursionErrorMessage
    /\ futures[2].exc = "" /\ futures[2].result # NoRecord
    /\ \E i \in RowsFor(futures[1].source_path, futures[1].link),
          j \in RowsFor(futures[2].source_path, futures[2].link) :
          /\ i < j
          /\ Report[i].reason = "Check failed: maximum recursion depth exceeded while calling a P"
          /\ Report[j].reason = "HTTP 500 (SSL Warning) (500)"
    /\ dead_links_count = Len(Report) - 1

\* ------------------------------------------------------------------------
\* netspeed_server.py and netspeed_client.py (2024/2024-09.netspeed)
\*
\* One server and one run of the client.  A connection is two byte streams;
\* the client writes only b'x' and then its result line, the server only
\* b'x', so a stream is the number of bytes of each kind that are written
\* and not yet read.  recv(n) returns between one byte and n bytes of what
\* has arrived; sendall blocks while the stream has no room for the packet.
\* ------------------------------------------------------------------------

\* total_packets / TOTAL_PACKETS (100 in the source) and packet_size /
\* PACKET_SIZE (1024 in the source), scaled down
TotalPackets == 3
PacketSize == 2

\* line 56 of the server: the size of the final recv, the packet size there
FinalSize == PacketSize

\* the length of the result line the client sends (some sixty bytes in the
\* source, less than one packet)
ResultLen == 2

UploadTotal == TotalPackets * PacketSize

\* what the buffers of one direction hold: less than one run writes, or all
\* of it
Caps == {PacketSize, UploadTotal + ResultLen}

\* a connection the client has just made
NewConn ==
    [up_x |-> 0, up_r |-> 0, down |-> 0, tx_up |-> 0, tx_down |-> 0,
     peer |-> "open", s_closed |-> FALSE]

\* the connection the client is on, the connection the server is on
ClientConn == ns.conns[Len(ns.conns)]
ServerConn == ns.conns[ns.cur]

\* what closing the client's socket sends: a reset when received bytes are
\* left unread, the end of the stream otherwise
ClosedPeer(c) == IF c.down > 0 THEN "rst" ELSE "fin"

\* server lines 63-64 then 77-80: the finally closes the client socket,
\* handle_client_connection returns and the loop is at accept again
HandleReturns(r) ==
    [r EXCEPT !.conns[r.cur].s_closed = TRUE, !.s_pc = "accept", !.s_i = 0]

\* server lines 63-64, 85-89: an exception that is a socket.error leaves
\* handle_client_connection and the while loop; the server socket is closed
HandleRaises(r) ==
    [r EXCEPT !.conns[r.cur].s_closed = TRUE, !.s_pc = "stopped", !.s_i = 0,
              !.s_end = "socket error"]

\* server line 79: accept takes the next connection of the backlog
Accept ==
    /\ ns.s_pc = "accept"
    /\ ns.cur < Len(ns.conns)
    /\ ns' = [ns EXCEPT !.cur = ns.cur + 1, !.s_pc = "recv", !.s_i = 0]
    /\ UNCHANGED <<probeVars, engineVars, norm, repo, scan, extract, main, stdout>>

\* server lines 32-40: one recv of the first loop
ServerRecv ==
    /\ ns.s_pc = "recv"
    /\ LET c == ServerConn
           avail == c.up_x + c.up_r
       IN \/ /\ avail > 0
             /\ \E k \in 1..Min(PacketSize, avail) :
                   LET kx == Min(k, c.up_x)
                       i == ns.s_i + 1
                   IN ns' = [ns EXCEPT !.conns[ns.cur].up_x = c.up_x - kx,
                                       !.conns[ns.cur].up_r = c.up_r - (k - kx),
                                       !.s_i = IF i = TotalPackets THEN 0 ELSE i,
                                       !.s_pc = IF i = TotalPackets THEN "send" ELSE "recv"]
          \* b'' at line 35, or ConnectionResetError at line 38: return
          \/ /\ \/ avail = 0 /\ c.peer \in {"fin", "pipe"}
                \/ c.peer = "rst"
             /\ ns' = HandleReturns(ns)
    /\ UNCHANGED <<probeVars, engineVars, norm, repo, scan, extract, main, stdout>>

\* server lines 46-51: one sendall of the second loop.  Line 49 catches
\* BrokenPipeError only: that one returns.
ServerSend ==
    /\ ns.s_pc = "send"
    /\ LET c == ServerConn
           i == ns.s_i + 1
           sent(r) == [r EXCEPT !.s_i = IF i = TotalPackets THEN 0 ELSE i,
                                !.s_pc = IF i = TotalPackets THEN "final" ELSE "send"]
       IN \/ /\ c.peer = "open"
             /\ c.down + PacketSize <= ns.cap
             /\ ns' = sent([ns EXCEPT !.conns[ns.cur].down = c.down + PacketSize,
                                      !.conns[ns.cur].tx_down = c.tx_down + PacketSize])
          \* the peer has closed: the bytes leave, the peer answers with a
          \* reset, and the next sendall has EPIPE
          \/ /\ c.peer = "fin"
             /\ ns' = sent([ns EXCEPT !.conns[ns.cur].peer = "pipe",
                                      !.conns[ns.cur].tx_down = c.tx_down + PacketSize])
          \/ /\ c.peer = "pipe"
             /\ ns' = HandleReturns(ns)
          \* the peer has reset the connection: ECONNRESET, which is a
          \* ConnectionResetError and not a BrokenPipeError
          \/ /\ c.peer = "rst"
             /\ ns' = HandleRaises(ns)
    /\ UNCHANGED <<probeVars, engineVars, norm, repo, scan, extract, main, stdout>>

\* server lines 55-64: the final recv, the print of what it returned, close
ServerFinal ==
    /\ ns.s_pc = "final"
    /\ LET c == ServerConn
           avail == c.up_x + c.up_r
       IN \/ /\ avail > 0
             /\ \E k \in 1..Min(FinalSize, avail) :
                   LET kx == Min(k, c.up_x)
                   IN ns' = HandleReturns(
                               [ns EXCEPT !.conns[ns.cur].up_x = c.up_x - kx,
                                          !.conns[ns.cur].up_r = c.up_r - (k - kx),
                                          !.s_out = Append(ns.s_out,
                                                           [x |-> kx, r |-> k - kx])])
          \* b'' is not printed (line 57); ConnectionError is passed (59-61)
          \/ /\ \/ avail = 0 /\ c.peer \in {"fin", "pipe"}
                \/ c.peer = "rst"
             /\ ns' = HandleReturns(ns)
    /\ UNCHANGED <<probeVars, engineVars, norm, repo, scan, extract, main, stdout>>

\* server lines 81-83, 87-89: the operator's interrupt, wherever the server
\* is; inside handle_client_connection the finally closes the client socket
KeyboardInterrupt ==
    /\ ns.s_pc \in {"accept", "recv", "send", "final"}
    /\ ns' = [ns EXCEPT !.s_pc = "stopped", !.s_end = "interrupt", !.s_i = 0,
                        !.conns = [n \in DOMAIN ns.conns |->
                                      IF n = ns.cur /\ ns.s_pc # "accept"
                                      THEN [ns.conns[n] EXCEPT !.s_closed = TRUE]
                                      ELSE ns.conns[n]]]
    /\ UNCHANGED <<probeVars, engineVars, norm, repo, scan, extract, main, stdout>>

\* client lines 30-32, 55-57: sys.exit(1); the process ends and its socket,
\* if it has one that is open, is closed with it
ClientExits(r) ==
    [r EXCEPT !.c_pc = "exit", !.c_exit = 1, !.c_i = 0,
              !.conns = [n \in DOMAIN r.conns |->
                            IF n = Len(r.conns) /\ r.conns[n].peer = "open"
                            THEN [r.conns[n] EXCEPT !.peer = ClosedPeer(r.conns[n])]
                            ELSE r.conns[n]]]

\* client lines 24-32: ping_latency connects and closes at once
ClientPing ==
    /\ ns.c_pc = "ping"
    /\ ns' = IF ns.s_pc = "stopped"
             THEN ClientExits(ns)
             ELSE [ns EXCEPT !.conns = Append(ns.conns, [NewConn EXCEPT !.peer = "fin"]),
                             !.c_pc = "connect"]
    /\ UNCHANGED <<probeVars, engineVars, norm, repo, scan, extract, main, stdout>>

\* client lines 36-37
ClientConnect ==
    /\ ns.c_pc = "connect"
    /\ ns' = IF ns.s_pc = "stopped"
             THEN ClientExits(ns)
             ELSE [ns EXCEPT !.conns = Append(ns.conns, NewConn),
                             !.c_pc = "upload", !.c_i = 0]
    /\ UNCHANGED <<probeVars, engineVars, norm, repo, scan, extract, main, stdout>>

\* client lines 41-42: one sendall of the upload
ClientSend ==
    /\ ns.c_pc = "upload"
    /\ LET c == ClientConn
           n == Len(ns.conns)
           i == ns.c_i + 1
       IN \/ /\ ~c.s_closed
             /\ c.up_x + c.up_r + PacketSize <= ns.cap
             /\ ns' = [ns EXCEPT !.conns[n].up_x = c.up_x + PacketSize,
                                 !.conns[n].tx_up = c.tx_up + PacketSize,
                                 !.c_i = IF i = TotalPackets THEN 0 ELSE i,
                                 !.c_pc = IF i = TotalPackets THEN "download" ELSE "upload"]
          \/ /\ c.s_closed
             /\ ns' = ClientExits(ns)
    /\ UNCHANGED <<probeVars, engineVars, norm, repo, scan, extract, main, stdout>>

\* client lines 47-50: one recv of the download
ClientRecv ==
    /\ ns.c_pc = "download"
    /\ LET c == ClientConn
           n == Len(ns.conns)
           i == ns.c_i + 1
       IN \/ /\ c.down > 0
             /\ \E k \in 1..Min(PacketSize, c.down) :
                   ns' = [ns EXCEPT !.conns[n].down = c.down - k,
                                    !.c_i = IF i = TotalPackets THEN 0 ELSE i,
                                    !.c_pc = IF i = TotalPackets THEN "result" ELSE "download"]
          \/ /\ c.down = 0
             /\ c.s_closed
             /\ ns' = ClientExits(ns)
    /\ UNCHANGED <<probeVars, engineVars, norm, repo, scan, extract, main, stdout>>

\* client lines 91-102: the result line is sent; an exception is printed
ClientSendResult ==
    /\ ns.c_pc = "result"
    /\ LET c == ClientConn
           n == Len(ns.conns)
       IN \/ /\ ~c.s_closed
             /\ c.up_x + c.up_r + ResultLen <= ns.cap
             /\ ns' = [ns EXCEPT !.conns[n].up_r = c.up_r + ResultLen,
                                 !.conns[n].tx_up = c.tx_up + ResultLen,
                                 !.c_pc = "close"]
          \/ /\ c.s_closed
             /\ ns' = [ns EXCEPT !.c_pc = "close"]
    /\ UNCHANGED <<probeVars, engineVars, norm, repo, scan, extract, main, stdout>>

\* client lines 103-105
ClientClose ==
    /\ ns.c_pc = "close"
    /\ ns' = [ns EXCEPT !.conns[Len(ns.conns)].peer = ClosedPeer(ClientConn),
                        !.c_pc = "done", !.c_exit = 0]
    /\ UNCHANGED <<probeVars, engineVars, norm, repo, scan, extract, main, stdout>>

\* the client is stopped or loses its link in the middle of the exchange
ClientAbort ==
    /\ ns.c_pc \in {"upload", "download", "result", "close"}
    /\ ns' = [ns EXCEPT !.conns[Len(ns.conns)].peer = ClosedPeer(ClientConn),
                        !.c_pc = "killed", !.c_i = 0]
    /\ UNCHANGED <<probeVars, engineVars, norm, repo, scan, extract, main, stdout>>

\* the server listens (lines 68-75), the client has started (lines 59-71)
NetInit ==
    /\ \E cap \in Caps :
          ns = [NsOff EXCEPT !.s_pc = "accept", !.c_pc = "ping", !.cap = cap]
    /\ EngineOff
    /\ probe = << >>
    /\ net = FreeNet
    /\ norm = NormOff
    /\ EnumOff
    /\ main = MainOff
    /\ stdout = << >>

NetNext ==
    \/ Accept
    \/ ServerRecv
    \/ ServerSend
    \/ ServerFinal
    \/ KeyboardInterrupt
    \/ ClientPing
    \/ ClientConnect
    \/ ClientSend
    \/ ClientRecv
    \/ ClientSendResult
    \/ ClientClose
    \/ ClientAbort

NetSpec == NetInit /\ [][NetNext]_vars

\* every connection handle_client_connection has left is closed on the
\* server's side
HandledSocketsClosed ==
    \A n \in DOMAIN ns.conns :
        (n < ns.cur \/ (n = ns.cur /\ ns.s_pc \in {"accept", "stopped"}))
            => ns.conns[n].s_closed

\* C29: a connection failure in a client session never ends the server:
\* handle_client_connection closes the client socket and returns, the
\* accept loop goes on, and only the operator's interrupt ends the loop.
C29_ConnectionFailureNeverEndsServer ==
    /\ HandledSocketsClosed
    /\ ns.s_pc = "stopped" => ns.s_end = "interrupt"

\* neither the operator nor the environment has cut the session short
NoEarlyDisconnect == ns.c_pc # "killed" /\ ns.s_end # "interrupt"

\* the server is past its receive loop on the client's measuring connection
ServerPastRecvLoop ==
    ns.cur = 2 /\ Len(ns.conns) = 2 /\ ns.s_pc \in {"send", "final"}

\* the client is past its receive loop
ClientPastRecvLoop == ns.c_pc \in {"result", "close"}

\* the bytes the server has read of what the client wrote, and the bytes the
\* client has read of what the server wrote
ServerConsumed == ServerConn.tx_up - ServerConn.up_x - ServerConn.up_r
ClientConsumed == ClientConn.tx_down - ClientConn.down

\* a step of the server or of the client, as the code takes it
SessionStep ==
    \/ Accept \/ ServerRecv \/ ServerSend \/ ServerFinal
    \/ ClientPing \/ ClientConnect \/ ClientSend \/ ClientRecv
    \/ ClientSendResult \/ ClientClose

\* a side is inside the exchange and neither side can take a step
Stuck ==
    /\ \/ ns.c_pc \in {"upload", "download", "result", "close"}
       \/ ns.s_pc \in {"recv", "send", "final"}
    /\ ~ENABLED SessionStep

ServerLoopConsumesUpload ==
    (NoEarlyDisconnect /\ ServerPastRecvLoop) => ServerConsumed = UploadTotal
ClientLoopConsumesDownload ==
    (NoEarlyDisconnect /\ ClientPastRecvLoop) => ClientConsumed = UploadTotal
FinalIsResultLine ==
    NoEarlyDisconnect =>
        \A n \in DOMAIN ns.s_out : ns.s_out[n] = [x |-> 0, r |-> ResultLen]
BothTerminate == NoEarlyDisconnect => ~Stuck

\* C30: with no early disconnect and for every way the stream is split
\* across recv calls, the server's receive loop consumes exactly the upload,
\* the client's receive loop exactly the download, the final recv of the
\* server returns the result line and nothing else, and both sides end.
C30_ExchangeIsByteExact ==
    /\ ServerLoopConsumesUpload
    /\ ClientLoopConsumesDownload
    /\ FinalIsResultLine
    /\ BothTerminate

====
